---- MODULE Spec2Model ----
(***************************************************************************)
(* Model of the bibliographic resolution and incremental enrichment        *)
(* pipeline of planetmould: fetch_news.py (run_fetcher, enrich_abstracts   *)
(* and the resolver / cascade helpers) and the archive patch of            *)
(* enrich_from_pdfs.py.                                                    *)
(*                                                                         *)
(* Texts (excerpts, abstracts) are records [from, len, meta]: where the    *)
(* text came from, its length in characters and whether it matches one of  *)
(* the metadata-signature patterns of is_thin_excerpt.  Titles and DOIs    *)
(* are sequences of tokens, URLs are records [host, path].                 *)
(*                                                                         *)
(* Further specifications model the programs around the pipeline, each on  *)
(* its own: SpecPure (helpers applied to arguments), SpecChunk             *)
(* (rag_ingest.chunk_text), SpecLog (generate_system_log.py), SpecEnhance  *)
(* (enhance_articles.main) and SpecIngest (rag_ingest.ingest_articles).    *)
(***************************************************************************)
EXTENDS Integers, Sequences, FiniteSets, TLC

VARIABLES
    archive,        \* mould_news.json: the persisted list of article dicts
    manifest,       \* missing_abstracts.json/.csv: list of entries, or NoFile
    env,            \* environment: is ELSEVIER_KEY set
    answers,        \* what each external service answers to each request
    pc,             \* position of the program: idle, a step of the loop, done
    articles,       \* sorted_output, the list enrich_abstracts works on
    i,              \* index of the article the for-loop of enrich_abstracts is at
    doi,            \* local variable doi of the loop body
    log,            \* external requests and sleeps of the current loop iteration
    before,         \* the article dict as the loop body found it (history)
    batch,          \* output: the fresh batch of the current run (history)
    rerun,          \* the run repeats the run before it: it works on the
                    \* archive as that run left it and gets the same answers
    runs,           \* number of runs of run_fetcher started
    oldManifest,    \* the manifest as the last export found it (history)
    file,           \* mould_news.json on disk: missing, unparseable or a list
    loaded,         \* what the load of the current run found on disk (history)
    call,           \* a helper applied on its own: its name and its arguments
    ret,            \* what the helper of call returned
    frame,          \* the local variables of a helper whose loop is in progress
    syslog,         \* system_log.json: missing, or its entries and run history
    script,         \* enhance_articles.py as generate_system_log.py reads it
    today,          \* the date of the clock
    previous,       \* the last run of generate_system_log.main (history)
    enhanced,       \* articles_enhanced.json: missing, or the list of dicts
    sent,           \* the number of runs of enhance_articles.main and the urls
                    \* its last run sent to the model (history)
    collection,     \* ChromaDB collection mouldwire_articles: its documents
    abstracts,      \* ChromaDB collection mouldwire_abstracts: its documents
    upserted        \* the number of runs of ingest_articles, and what its last
                    \* run found and upserted (history)

vars == <<archive, manifest, env, answers, pc, articles, i, doi, log, before,
          batch, rerun, runs, oldManifest, file, loaded, call, ret, frame,
          syslog, script, today, previous, enhanced, sent, collection,
          abstracts, upserted>>

\* the variables of fetch_news.py and enrich_from_pdfs.py
pipeVars == <<manifest, env, answers, pc, articles, i, doi, log, before, batch,
              rerun, runs, oldManifest, loaded>>
\* the variables of generate_system_log.py
logVars == <<syslog, script, today, previous>>
\* the variables of rag_ingest.py
ragVars == <<collection, abstracts, upserted>>
\* what fetch_news.py and enrich_from_pdfs.py neither read nor write
otherPrograms == <<frame, logVars, enhanced, sent, ragVars>>

-----------------------------------------------------------------------------
(* Bounds *)

MaxRuns == 3
MaxBatch == 1
MaxArchive == 2
MaxLogRuns == 2
MaxDay == 12
MaxEnhanceRuns == 2
MaxText == 5
MaxWords == 3
MaxResults == 2
MaxIngestRuns == 2
MaxTitleLen == 3

-----------------------------------------------------------------------------
(* Program constants *)

THIN_LEN == 150
SS_MIN_LEN == 50
EPMC_MIN_LEN == 50
MIN_ABSTRACT_LEN == 100
EXCERPT_CAP == 2000
FEED_CAP == 1200
ENHANCE_MIN_LEN == 100
ELLIPSIS_LEN == 150

FirstDay == 11

NoFile == [exists |-> FALSE, entries |-> <<>>]
NoSource == "none"
NoDoi == <<>>
NoCall == [fn |-> "none"]
NoRet == [returned |-> FALSE]
NoFrame == [fn |-> "none"]
NoLog == [exists |-> FALSE, entries |-> <<>>, run_history |-> 0]
NoScript == [exists |-> FALSE]
NoPrevious == [runs |-> 0]
NoEnhanced == [exists |-> FALSE, list |-> <<>>]
NoSent == [run |-> 0, urls |-> {}]

-----------------------------------------------------------------------------
(* Texts *)

Text(f, n, m) == [from |-> f, len |-> n, meta |-> m]
Empty == Text("none", 0, FALSE)

Min(a, b) == IF a < b THEN a ELSE b
Max(a, b) == IF a > b THEN a ELSE b

\* s[:n] of Python.  The metadata patterns of a text that matches one lie
\* within its first characters, so a prefix keeps the match.
Slice(t, n) == IF t.len <= n THEN t ELSE [t EXCEPT !.len = n]

\* the classifier without its test of the length
is_thin_excerpt_patterns(excerpt) ==
    IF excerpt.len = 0 THEN TRUE ELSE excerpt.meta

is_thin_excerpt(excerpt) ==
    IF excerpt.len = 0 \/ excerpt.len < THIN_LEN
    THEN TRUE
    ELSE excerpt.meta

-----------------------------------------------------------------------------
(* URLs, DOIs, titles *)

DoiPrefixes == {"10.3390", "10.1016", "10.9999"}
PiiTokens == {"S0141813026001"}
TrailingPunct == {".", ")"}
SuppSuffixes == {"s001"}

UDoi == [host |-> "www.mdpi.com", path |-> <<"10.3390", "jof1">>]
UPii == [host |-> "www.sciencedirect.com",
         path |-> <<"science", "article", "pii", "S0141813026001">>]
UPlain == [host |-> "x", path |-> <<"1">>]
Urls == {UDoi, UPii, UPlain}

RECURSIVE rstrip(_)
rstrip(s) ==
    IF s # <<>> /\ s[Len(s)] \in TrailingPunct
    THEN rstrip(SubSeq(s, 1, Len(s) - 1))
    ELSE s

extract_doi(url) ==
    LET hits == {j \in 1..(Len(url.path) - 1) : url.path[j] \in DoiPrefixes}
    IN  IF hits = {} THEN NoDoi
        ELSE LET j == CHOOSE x \in hits : \A y \in hits : x <= y
             IN  rstrip(SubSeq(url.path, j, Len(url.path)))

extract_pii(url) ==
    LET hits == {j \in 1..(Len(url.path) - 1) :
                    url.path[j] = "pii" /\ url.path[j + 1] \in PiiTokens}
    IN  IF hits = {} THEN ""
        ELSE url.path[(CHOOSE x \in hits : \A y \in hits : x <= y) + 1]

is_sciencedirect(url) == url.host \in {"www.sciencedirect.com"}

\* Titles are sequences of characters.
\* the feed's title of each url; the entry of UPlain has no title
TitleOf(url) ==
    CASE url = UDoi -> <<"m", "o", "u", "l", "d">>
      [] url = UPii -> <<"N", "e", "w", " ", "f", "u", "n", "g", "i">>
      [] OTHER -> <<>>

\* str.lower on the capitals the titles of the model use
Lower(c) ==
    CASE c = "A" -> "a"
      [] c = "B" -> "b"
      [] c = "N" -> "n"
      [] OTHER -> c

\* the characters re.sub(r'[^a-z0-9 ]', '', ...) keeps
Kept == {"a", "b", "c", "d", "e", "f", "g", "h", "i", "j", "k", "l", "m",
         "n", "o", "p", "q", "r", "s", "t", "u", "v", "w", "x", "y", "z",
         "0", "1", "2", "3", "4", "5", "6", "7", "8", "9", " "}

\* str.strip of a string whose only whitespace is the blank
RECURSIVE strip(_)
strip(t) ==
    IF t = <<>> THEN t
    ELSE IF Head(t) = " " THEN strip(Tail(t))
    ELSE IF t[Len(t)] = " " THEN strip(SubSeq(t, 1, Len(t) - 1))
    ELSE t

\* norm of _titles_match
norm(t) ==
    LET low == [j \in 1..Len(t) |-> Lower(t[j])]
    IN  strip(SelectSeq(low, LAMBDA c : c \in Kept))

\* a in b of two strings
IsInfix(a, b) ==
    \E k \in 0..(Len(b) - Len(a)) : SubSeq(b, k + 1, k + Len(a)) = a

\* set(t.split()): the maximal runs of non-blank characters
Words(t) ==
    LET starts == {j \in 1..Len(t) : t[j] # " " /\ (j = 1 \/ t[j - 1] = " ")}
        end(j) == CHOOSE k \in j..Len(t) :
                        /\ \A l \in j..k : t[l] # " "
                        /\ (k = Len(t) \/ t[k + 1] = " ")
    IN  {SubSeq(t, j, end(j)) : j \in starts}

\* a test that divides by the size of the larger word set
_titles_match_larger(a, b) ==
    LET na == norm(a)
        nb == norm(b)
    IN  IF na = <<>> \/ nb = <<>> THEN FALSE
        ELSE IF IsInfix(na, nb) \/ IsInfix(nb, na) THEN TRUE
        ELSE LET wa == Words(na)
                 wb == Words(nb)
             IN  IF wa = {} \/ wb = {} THEN FALSE
                 ELSE 4 * Cardinality(wa \cap wb)
                        > 3 * Max(Cardinality(wa), Cardinality(wb))

_titles_match(a, b) ==
    LET na == norm(a)
        nb == norm(b)
    IN  IF na = <<>> \/ nb = <<>> THEN FALSE
        ELSE IF IsInfix(na, nb) \/ IsInfix(nb, na) THEN TRUE
        ELSE LET wa == Words(na)
                 wb == Words(nb)
             IN  IF wa = {} \/ wb = {} THEN FALSE
                 ELSE \* overlap > 0.75
                      4 * Cardinality(wa \cap wb)
                        > 3 * Min(Cardinality(wa), Cardinality(wb))

-----------------------------------------------------------------------------
(* Article dicts and the feed *)

SourceOf(url) == IF url = UPii THEN "Fungal Biology" ELSE "MDPI"
CategoryOf(url) == IF url = UPlain THEN "media" ELSE "science"

FeedTexts == {Text("feed", 200, TRUE), Text("feed", 200, FALSE)}
PubDateOf(url) == IF url = UDoi THEN 2 ELSE 1

\* the dicts run_fetcher appends to output: no abstract_source, no doi key
FeedStubs ==
    {[title |-> TitleOf(u), source |-> SourceOf(u), excerpt |-> Slice(e, FEED_CAP),
      url |-> u, pubDate |-> PubDateOf(u), category |-> CategoryOf(u),
      abstract_source |-> NoSource, doi |-> NoDoi] :
        u \in Urls, e \in FeedTexts}

NoStub == [url |-> "none"]

Batches == UNION {[1..n -> FeedStubs] : n \in 0..MaxBatch}

-----------------------------------------------------------------------------
(* Merge and sort of run_fetcher *)

IndexOf(seq, url) ==
    LET hits == {j \in 1..Len(seq) : seq[j].url = url}
    IN  IF hits = {} THEN 0 ELSE CHOOSE x \in hits : \A y \in hits : x <= y

\* merged[article['url']] = article on an insertion-ordered dict
DictPut(seq, article) ==
    LET j == IndexOf(seq, article.url)
    IN  IF j = 0 THEN Append(seq, article) ELSE [seq EXCEPT ![j] = article]

RECURSIVE DictFrom(_, _)
DictFrom(acc, list) ==
    IF list = <<>> THEN acc
    ELSE DictFrom(DictPut(acc, Head(list)), Tail(list))

RECURSIVE InsertDesc(_, _)

\* an insertion that goes before the equal dates
InsertDescBeforeEqual(sorted, a) ==
    IF sorted = <<>> THEN <<a>>
    ELSE IF Head(sorted).pubDate > a.pubDate
         THEN <<Head(sorted)>> \o InsertDesc(Tail(sorted), a)
         ELSE <<a>> \o sorted

\* insert into a list sorted by pubDate descending, after the equal dates
InsertDesc(sorted, a) ==
    IF sorted = <<>> THEN <<a>>
    ELSE IF Head(sorted).pubDate >= a.pubDate
         THEN <<Head(sorted)>> \o InsertDesc(Tail(sorted), a)
         ELSE <<a>> \o sorted

RECURSIVE SortDesc(_, _)

\* a list left in the order of the dict
SortDescNone(acc, list) == acc \o list

\* sorted(values, key=pubDate, reverse=True): stable
SortDesc(acc, list) ==
    IF list = <<>> THEN acc
    ELSE SortDesc(InsertDesc(acc, Head(list)), Tail(list))

\* a merge that keeps the fresh batch only
MergeFreshOnly(existing_articles, output) ==
    IF output = <<>>
    THEN SortDesc(<<>>, DictFrom(<<>>, existing_articles))
    ELSE SortDesc(<<>>, DictFrom(<<>>, output))

Merge(existing_articles, output) ==
    SortDesc(<<>>, DictFrom(DictFrom(<<>>, existing_articles), output))

-----------------------------------------------------------------------------
(* External services: the raw responses and what each helper returns.      *)
(* kind is "error" (exception, timeout), "http" (status other than 200)    *)
(* or "ok" (status 200).                                                   *)

DEls == <<"10.1016", "j.ijbiomac.1">>
DCr == <<"10.9999", "abc">>
DCrSupp == <<"10.9999", "abc", "s001">>

Unasked == [kind |-> "unasked"]
Failures == {[kind |-> "error"], [kind |-> "http"]}

ElsevierResponses == Failures \cup {[kind |-> "ok", doi |-> d] : d \in {NoDoi, DEls}}

resolve_pii_to_doi(resp, elsevier_key) ==
    IF ~elsevier_key THEN NoDoi
    ELSE IF resp.kind = "ok" THEN resp.doi ELSE NoDoi

CandTitles ==
    {<<"n", "e", "w", " ", "f", "u", "n", "g", "i", ":", " ", "a", " ",
       "s", "u", "r", "v", "e", "y">>,
     <<"y", "e", "a", "s", "t", " ", "g", "r", "o", "w", "t", "h">>}
CrossrefResponses ==
    Failures \cup {[kind |-> "ok", items |-> <<>>]}
        \cup {[kind |-> "ok", items |-> <<[title |-> t, DOI |-> d]>>] :
                t \in CandTitles, d \in {NoDoi, DCr, DCrSupp}}

\* re.search(r'\.s\d{3}$', doi): the last part follows a dot and is s and
\* three digits
IsSupplementary(d) == Len(d) >= 3 /\ d[Len(d)] \in SuppSuffixes

\* a title search that returns whatever DOI the top hit carries
resolve_title_to_doi_any(title, resp) ==
    IF resp.kind # "ok" THEN NoDoi
    ELSE IF resp.items = <<>> THEN NoDoi
    ELSE LET candidate == resp.items[1]
         IN  IF _titles_match(title, candidate.title)
             THEN candidate.DOI
             ELSE NoDoi

resolve_title_to_doi(title, resp) ==
    IF resp.kind # "ok" THEN NoDoi
    ELSE IF resp.items = <<>> THEN NoDoi
    ELSE LET candidate == resp.items[1]
         IN  IF _titles_match(title, candidate.title)
             THEN IF candidate.DOI # NoDoi /\ ~IsSupplementary(candidate.DOI)
                  THEN candidate.DOI
                  ELSE NoDoi
             ELSE NoDoi

\* abstracts the identifier-based services hold: none, or a text
ApiTexts(f) == {Empty, Text(f, 40, FALSE), Text(f, 80, FALSE), Text(f, 200, FALSE)}
SSResponses ==
    Failures \cup {[kind |-> "ok", abstract |-> t] : t \in ApiTexts("semantic_scholar")}
EPMCResponses ==
    Failures \cup {[kind |-> "ok", results |-> <<>>]}
        \cup {[kind |-> "ok", results |-> <<[abstractText |-> t]>>] :
                t \in ApiTexts("europepmc") \ {Text("europepmc", 40, FALSE)}}

\* the helpers return Empty for Python's None
fetch_abstract_semantic_scholar(resp) ==
    IF resp.kind = "ok"
    THEN IF resp.abstract.len > 0 /\ resp.abstract.len > SS_MIN_LEN
         THEN resp.abstract ELSE Empty
    ELSE Empty

fetch_abstract_europepmc(resp) ==
    IF resp.kind = "ok" /\ resp.results # <<>>
    THEN LET abstract == resp.results[1].abstractText
         IN  IF abstract.len > 0 /\ abstract.len > EPMC_MIN_LEN
             THEN abstract ELSE Empty
    ELSE Empty

\* an OpenAlex inverted index: per word its length and its positions
InvertedIndexes ==
    {<<>>,
     <<[wlen |-> 7, positions |-> {}]>>,
     <<[wlen |-> 7, positions |-> 0..4]>>,
     <<[wlen |-> 7, positions |-> 0..11],
       [wlen |-> 7, positions |-> 12..24]>>}
OAResponses == Failures \cup {[kind |-> "ok", inverted |-> x] : x \in InvertedIndexes}

RECURSIVE CountWords(_)
CountWords(index) ==
    IF index = <<>> THEN 0
    ELSE Cardinality(Head(index).positions) + CountWords(Tail(index))

RECURSIVE CountChars(_)
CountChars(index) ==
    IF index = <<>> THEN 0
    ELSE Head(index).wlen * Cardinality(Head(index).positions)
            + CountChars(Tail(index))

\* ' '.join of the words in position order: the words and one blank between
reconstruct_abstract(index) ==
    IF index = <<>> THEN Empty
    ELSE LET n == CountWords(index)
         IN  IF n = 0 THEN Empty
             ELSE Text("openalex", CountChars(index) + (n - 1), FALSE)

fetch_abstract_openalex(resp) ==
    IF resp.kind = "ok"
    THEN IF resp.inverted # <<>> THEN reconstruct_abstract(resp.inverted) ELSE Empty
    ELSE Empty

\* a page: the text of its description meta tag and of its abstract container
PageTexts == {Empty, Text("web_scrape", 80, FALSE), Text("web_scrape", 120, FALSE),
              Text("web_scrape", 2500, FALSE)}
Pages == {[meta |-> m, container |-> c] : m \in {Empty, Text("web_scrape", 80, FALSE)},
                                              c \in PageTexts}
            \cup {[meta |-> Text("web_scrape", 2500, FALSE), container |-> Empty]}
ScrapeResponses == Failures \cup {[kind |-> "ok", html |-> h] : h \in Pages}

scrape_abstract_from_page(resp) ==
    IF resp.kind # "ok" THEN Empty
    ELSE IF resp.html.meta.len > MIN_ABSTRACT_LEN
         THEN Slice(resp.html.meta, EXCERPT_CAP)
    ELSE IF resp.html.container.len > MIN_ABSTRACT_LEN
         THEN Slice(resp.html.container, EXCERPT_CAP)
    ELSE Empty

Services == {"elsevier", "crossref", "semantic_scholar", "openalex", "europepmc",
             "web_scrape"}
NoAnswers == [s \in Services |-> [u \in Urls |-> Unasked]]

\* the helper of service returns result for the request made for url; within
\* one world the same request has the same result
Answer(service, url, result) ==
    /\ answers[service][url] \in {Unasked, [kind |-> "asked", result |-> result]}
    /\ answers' = [answers EXCEPT ![service][url] = [kind |-> "asked", result |-> result]]

-----------------------------------------------------------------------------
(* enrich_abstracts *)

Truthy(t) == t.len > 0

Title == articles[i].title
Url == articles[i].url

\* a title search that is made whatever the steps before it found
AfterPiiNoStop(d, title) ==
    IF title # <<>> THEN "crossref"
    ELSE IF d = NoDoi THEN "web_scrape"
    ELSE "semantic_scholar"

\* where the loop body goes once the publisher-ID step is over
AfterPii(d, title) ==
    IF d = NoDoi /\ title # <<>> THEN "crossref"
    ELSE IF d = NoDoi THEN "web_scrape"
    ELSE "semantic_scholar"

\* a cascade that is entered without a DOI
AfterTitleNoCheck(d) == "semantic_scholar"

\* where the loop body goes once the title search is over
AfterTitle(d) == IF d = NoDoi THEN "web_scrape" ELSE "semantic_scholar"

\* a retry kept only for articles never enriched before
SkipArticleOnce(article) ==
    ~is_thin_excerpt(article.excerpt) \/ article.abstract_source # NoSource

\* a skip that also wants no earlier enrichment
SkipArticleUnenriched(article) ==
    ~is_thin_excerpt(article.excerpt) /\ article.abstract_source = NoSource

\* a loop that takes up every article
SkipArticleNever(article) == FALSE

\* the test that makes the loop body continue with the next article
SkipArticle(article) == ~is_thin_excerpt(article.excerpt)

\* a retry that keeps the stale abstract_source
ClearStaleKeepsSource(article) ==
    IF article.abstract_source # NoSource
    THEN [article EXCEPT !.excerpt = Empty]
    ELSE article

\* the retry of a thin article that carries an abstract_source
ClearStale(article) ==
    IF article.abstract_source # NoSource
    THEN [article EXCEPT !.abstract_source = NoSource, !.excerpt = Empty]
    ELSE article

\* a write that records the last source of the cascade, whoever answered
EnrichedLastSource(article, abstract, source) ==
    [article EXCEPT !.excerpt = Slice(abstract, EXCERPT_CAP),
                    !.abstract_source = "web_scrape"]

\* article['excerpt'] = abstract[:2000]; article['abstract_source'] = source
Enriched(article, abstract, source) ==
    [article EXCEPT !.excerpt = Slice(abstract, EXCERPT_CAP),
                    !.abstract_source = source]

\* the other programs have not run and their files do not exist
OtherProgramsIdle ==
    /\ frame = NoFrame
    /\ syslog = NoLog
    /\ script = NoScript
    /\ today = 0
    /\ previous = NoPrevious
    /\ enhanced = NoEnhanced
    /\ sent = NoSent
    /\ collection = {}
    /\ abstracts = {}
    /\ upserted = [run |-> 0]

Init ==
    /\ archive = <<>>
    /\ manifest = NoFile
    /\ env \in [ELSEVIER_KEY : BOOLEAN]
    /\ answers = NoAnswers
    /\ pc = "idle"
    /\ articles = <<>>
    /\ i = 1
    /\ doi = NoDoi
    /\ log = <<>>
    /\ before = NoStub
    /\ batch = <<>>
    /\ rerun = FALSE
    /\ runs = 0
    /\ oldManifest = NoFile
    /\ file = "missing"
    /\ loaded = "none"
    /\ call = NoCall
    /\ ret = NoRet
    /\ OtherProgramsIdle

\* a load that takes whatever the file holds
existing_articles_raw == archive

\* the load of run_fetcher: a missing or unparseable file gives an empty list
existing_articles == IF file = "list" THEN archive ELSE <<>>

\* run_fetcher up to the call of enrich_abstracts: load, collect, merge, sort
StartRun(output, same) ==
    /\ pc \in {"idle", "done"}
    /\ runs < MaxRuns
    /\ Len(Merge(existing_articles, output)) <= MaxArchive
    /\ runs' = runs + 1
    /\ loaded' = file
    /\ articles' = Merge(existing_articles, output)
    /\ batch' = output
    /\ same => (pc = "done" /\ Merge(existing_articles, output) = archive)
    /\ answers' = IF same THEN answers ELSE NoAnswers
    /\ rerun' = same
    /\ i' = 1
    /\ doi' = NoDoi
    /\ log' = <<>>
    /\ before' = NoStub
    /\ pc' = "loop"
    /\ oldManifest' = NoFile
    /\ UNCHANGED <<archive, manifest, env, file, call, ret, otherPrograms>>

\* top of the loop body: the thin test, the retry reset, extract_doi
EnrichNext ==
    /\ pc = "loop"
    /\ i <= Len(articles)
    /\ before' = articles[i]
    /\ log' = <<>>
    /\ IF SkipArticle(articles[i])
       THEN /\ i' = i + 1
            /\ UNCHANGED <<articles, doi, pc>>
       ELSE LET d == extract_doi(Url)
            IN  /\ articles' = [articles EXCEPT ![i] = ClearStale(articles[i])]
                /\ doi' = d
                /\ pc' = IF d = NoDoi /\ is_sciencedirect(Url) /\ extract_pii(Url) # ""
                         THEN "elsevier"
                         ELSE AfterPii(d, Title)
                /\ UNCHANGED i
    /\ UNCHANGED <<archive, manifest, env, answers, batch, rerun, runs,
                   oldManifest, file, loaded, call, ret, otherPrograms>>

\* a publisher-ID step that sends its request without looking at the key
CallElsevierNoKeyCheck ==
    /\ pc = "elsevier"
    /\ \E resp \in ElsevierResponses :
            /\ Answer("elsevier", Url, resolve_pii_to_doi(resp, TRUE))
            /\ log' = Append(log, "elsevier")
            /\ doi' = resolve_pii_to_doi(resp, TRUE)
    /\ pc' = AfterPii(doi', Title)
    /\ UNCHANGED <<archive, manifest, env, articles, i, before, batch,
                   rerun, runs, oldManifest, file, loaded, call, ret, otherPrograms>>

CallElsevier ==
    /\ pc = "elsevier"
    /\ IF ~env.ELSEVIER_KEY
       THEN /\ doi' = resolve_pii_to_doi(Unasked, FALSE)
            /\ UNCHANGED <<answers, log>>
       ELSE \E resp \in ElsevierResponses :
                /\ Answer("elsevier", Url, resolve_pii_to_doi(resp, TRUE))
                /\ log' = Append(log, "elsevier")
                /\ doi' = resolve_pii_to_doi(resp, TRUE)
    /\ pc' = AfterPii(doi', Title)
    /\ UNCHANGED <<archive, manifest, env, articles, i, before, batch,
                   rerun, runs, oldManifest, file, loaded, call, ret, otherPrograms>>

CallCrossref ==
    /\ pc = "crossref"
    /\ \E resp \in CrossrefResponses :
            /\ Answer("crossref", Url, resolve_title_to_doi(Title, resp))
            /\ doi' = resolve_title_to_doi(Title, resp)
    /\ log' = Append(log, "crossref")
    /\ pc' = AfterTitle(doi')
    /\ UNCHANGED <<archive, manifest, env, articles, i, before, batch,
                   rerun, runs, oldManifest, file, loaded, call, ret, otherPrograms>>

\* a source of the cascade returned abstract: write it, sleep, next article
Succeed(abstract, source) ==
    /\ articles' = [articles EXCEPT ![i] = Enriched(articles[i], abstract, source)]
    /\ log' = log \o <<source, "sleep">>
    /\ i' = i + 1
    /\ pc' = "loop"

\* a source that returned nothing ends the work on the article
FallThroughAbort(source, next) ==
    /\ log' = Append(log, source)
    /\ pc' = "loop"
    /\ i' = i + 1
    /\ UNCHANGED articles

\* a source of the cascade returned nothing: go on with the next source
FallThrough(source, next) ==
    /\ log' = Append(log, source)
    /\ pc' = next
    /\ UNCHANGED <<articles, i>>

CallSemanticScholar ==
    /\ pc = "semantic_scholar"
    /\ \E resp \in SSResponses :
            /\ Answer("semantic_scholar", Url, fetch_abstract_semantic_scholar(resp))
            /\ LET abstract == fetch_abstract_semantic_scholar(resp)
               IN  IF Truthy(abstract)
                   THEN Succeed(abstract, "semantic_scholar")
                   ELSE FallThrough("semantic_scholar", "openalex")
    /\ UNCHANGED <<archive, manifest, env, doi, before, batch, rerun, runs,
                   oldManifest, file, loaded, call, ret, otherPrograms>>

CallOpenAlex ==
    /\ pc = "openalex"
    /\ \E resp \in OAResponses :
            /\ Answer("openalex", Url, fetch_abstract_openalex(resp))
            /\ LET abstract == fetch_abstract_openalex(resp)
               IN  IF Truthy(abstract)
                   THEN Succeed(abstract, "openalex")
                   ELSE FallThrough("openalex", "europepmc")
    /\ UNCHANGED <<archive, manifest, env, doi, before, batch, rerun, runs,
                   oldManifest, file, loaded, call, ret, otherPrograms>>

CallEuropePMC ==
    /\ pc = "europepmc"
    /\ \E resp \in EPMCResponses :
            /\ Answer("europepmc", Url, fetch_abstract_europepmc(resp))
            /\ LET abstract == fetch_abstract_europepmc(resp)
               IN  IF Truthy(abstract)
                   THEN Succeed(abstract, "europepmc")
                   ELSE FallThrough("europepmc", "web_scrape")
    /\ UNCHANGED <<archive, manifest, env, doi, before, batch, rerun, runs,
                   oldManifest, file, loaded, call, ret, otherPrograms>>

\* the page scrape, of the no-DOI branch and of the end of the cascade
CallScrape ==
    /\ pc = "web_scrape"
    /\ \E resp \in ScrapeResponses :
            /\ Answer("web_scrape", Url, scrape_abstract_from_page(resp))
            /\ LET abstract == scrape_abstract_from_page(resp)
               IN  IF Truthy(abstract)
                   THEN Succeed(abstract, "web_scrape")
                   ELSE /\ log' = IF doi = NoDoi
                                  THEN Append(log, "web_scrape")
                                  ELSE log \o <<"web_scrape", "sleep">>
                        /\ i' = i + 1
                        /\ pc' = "loop"
                        /\ UNCHANGED articles
    /\ UNCHANGED <<archive, manifest, env, doi, before, batch, rerun, runs,
                   oldManifest, file, loaded, call, ret, otherPrograms>>

\* the manifest entry of an article
Entry(article) ==
    LET d == extract_doi(article.url)
    IN  [doi |-> IF d = NoDoi THEN article.doi ELSE d,
         title |-> article.title,
         url |-> article.url,
         category |-> article.category,
         pubDate |-> article.pubDate]

\* a manifest built from every article
MissingAll(list) == [j \in 1..Len(list) |-> Entry(list[j])]

\* a manifest that keeps the entries of the manifest before it
MissingAppended(list) ==
    LET thin == SelectSeq(list, LAMBDA a : is_thin_excerpt(a.excerpt))
    IN  manifest.entries \o [j \in 1..Len(thin) |-> Entry(thin[j])]

Missing(list) ==
    LET thin == SelectSeq(list, LAMBDA a : is_thin_excerpt(a.excerpt))
    IN  [j \in 1..Len(thin) |-> Entry(thin[j])]

\* end of the loop: the manifest export, then run_fetcher writes the archive
ExportAndSave ==
    /\ pc = "loop"
    /\ i > Len(articles)
    /\ LET missing == Missing(articles)
       IN  manifest' = IF missing # <<>>
                       THEN [exists |-> TRUE, entries |-> missing]
                       ELSE NoFile
    /\ archive' = articles
    /\ pc' = "done"
    /\ articles' = <<>>
    /\ i' = 1
    /\ doi' = NoDoi
    /\ log' = <<>>
    /\ before' = NoStub
    /\ batch' = <<>>
    /\ oldManifest' = manifest
    /\ file' = "list"
    /\ UNCHANGED <<env, answers, rerun, runs, loaded, call, ret, otherPrograms>>

-----------------------------------------------------------------------------
(* enrich_from_pdfs.main with one PDF in the folder *)

PdfTexts == {Text("manual_pdf", 200, FALSE)}

PatchFromPdf(list, url, excerpt) ==
    [j \in 1..Len(list) |->
        IF list[j].url = url
        THEN Enriched(list[j], excerpt, "manual_pdf")
        ELSE list[j]]

PdfEnrich ==
    /\ pc \in {"idle", "done"}
    /\ manifest.exists
    /\ file = "list"
    /\ \E k \in 1..Len(manifest.entries), excerpt \in PdfTexts :
            archive' = SortDesc(<<>>,
                DictFrom(<<>>, PatchFromPdf(archive, manifest.entries[k].url, excerpt)))
    /\ pc' = "idle"
    /\ oldManifest' = NoFile
    /\ loaded' = "none"
    /\ UNCHANGED <<manifest, env, answers, articles, i, doi, log, before, batch,
                   rerun, runs, file, call, ret, otherPrograms>>

-----------------------------------------------------------------------------
(* The environment damages mould_news.json between two runs *)

\* what is left on disk: bytes that still spell a stub but are no JSON value
Garbage ==
    <<[title |-> TitleOf(UPlain), source |-> SourceOf(UPlain),
       excerpt |-> Text("feed", 200, FALSE), url |-> UPlain,
       pubDate |-> PubDateOf(UPlain), category |-> CategoryOf(UPlain),
       abstract_source |-> NoSource, doi |-> NoDoi]>>

Corrupt ==
    /\ pc \in {"idle", "done"}
    /\ file = "list"
    /\ file' = "unparseable"
    /\ archive' = Garbage
    /\ pc' = "idle"
    /\ answers' = NoAnswers
    /\ rerun' = FALSE
    /\ oldManifest' = NoFile
    /\ loaded' = "none"
    /\ UNCHANGED <<manifest, env, articles, i, doi, log, before, batch, runs,
                   call, ret, otherPrograms>>

Next ==
    \/ \E output \in Batches, same \in BOOLEAN : StartRun(output, same)
    \/ EnrichNext
    \/ CallElsevier
    \/ CallCrossref
    \/ CallSemanticScholar
    \/ CallOpenAlex
    \/ CallEuropePMC
    \/ CallScrape
    \/ ExportAndSave
    \/ PdfEnrich
    \/ Corrupt

Spec == Init /\ [][Next]_vars

-----------------------------------------------------------------------------
(* The merge of run_fetcher applied to an archive and the archive itself   *)
(* as the fresh batch.                                                     *)

\* article dicts an archive can hold: feed stubs and enriched articles
Stored ==
    FeedStubs
        \cup {Enriched(s, Text("openalex", 199, FALSE), "openalex") : s \in FeedStubs}
        \cup {Enriched(s, Text("openalex", 39, FALSE), "openalex") : s \in FeedStubs}

IsSortedDesc(list) ==
    \A j \in 1..(Len(list) - 1) : list[j].pubDate >= list[j + 1].pubDate

\* the lists run_fetcher writes: one dict per url, pubDate descending
SortedArchives ==
    {a \in UNION {[1..n -> Stored] : n \in 0..MaxArchive} :
        /\ \A j, k \in 1..Len(a) : a[j].url = a[k].url => j = k
        /\ IsSortedDesc(a)}

InitMerge ==
    /\ archive \in SortedArchives
    /\ file = "list"
    /\ manifest = NoFile
    /\ env \in [ELSEVIER_KEY : BOOLEAN]
    /\ answers = NoAnswers
    /\ pc = "idle"
    /\ articles = <<>>
    /\ i = 1
    /\ doi = NoDoi
    /\ log = <<>>
    /\ before = NoStub
    /\ batch = <<>>
    /\ rerun = FALSE
    /\ runs = 0
    /\ oldManifest = NoFile
    /\ loaded = "none"
    /\ call = NoCall
    /\ ret = NoRet
    /\ OtherProgramsIdle

NextMerge == StartRun(archive, FALSE)

SpecMerge == InitMerge /\ [][NextMerge]_vars

-----------------------------------------------------------------------------
(* Excerpts as strings of characters: the patterns of is_thin_excerpt and  *)
(* the classifier _is_thin of enhance_articles.main.                       *)

UpperCase == <<"A", "B", "C", "D", "E", "F", "G", "H", "I", "J", "K", "L", "M",
               "N", "O", "P", "Q", "R", "S", "T", "U", "V", "W", "X", "Y", "Z">>
LowerCase == <<"a", "b", "c", "d", "e", "f", "g", "h", "i", "j", "k", "l", "m",
               "n", "o", "p", "q", "r", "s", "t", "u", "v", "w", "x", "y", "z">>
Digits == {"0", "1", "2", "3", "4", "5", "6", "7", "8", "9"}

\* re.IGNORECASE: the letters are compared in lower case
Fold(s) ==
    [k \in 1..Len(s) |->
        IF \E j \in 1..26 : UpperCase[j] = s[k]
        THEN LowerCase[CHOOSE j \in 1..26 : UpperCase[j] = s[k]]
        ELSE s[k]]

\* the literal p stands at position k of s
At(s, k, p) ==
    /\ k >= 1
    /\ k + Len(p) - 1 <= Len(s)
    /\ SubSeq(s, k, k + Len(p) - 1) = p

\* \d+ at position k: the length of the run of digits that starts there
RECURSIVE DigitRun(_, _)
DigitRun(s, k) ==
    IF k <= Len(s) /\ s[k] \in Digits THEN 1 + DigitRun(s, k + 1) ELSE 0

\* .* between two positions: the dot matches no newline
NoNewline(s, a, b) == \A j \in a..b : s[j] # "\n"

PAT_PUBLICATION_DATE ==
    <<"p", "u", "b", "l", "i", "c", "a", "t", "i", "o", "n", " ", "d",
          "a", "t", "e", ":">>
PAT_SOURCE ==
    <<"s", "o", "u", "r", "c", "e", ":">>
PAT_VOLUME ==
    <<"v", "o", "l", "u", "m", "e", " ">>
PAT_AUTHORS ==
    <<"a", "u", "t", "h", "o", "r", "(", "s", ")", ":">>
PAT_JOURNAL_OF ==
    <<"j", "o", "u", "r", "n", "a", "l", " ", "o", "f", " ">>
PAT_COMMA_VOLUME ==
    <<",", " ", "v", "o", "l", "u", "m", "e">>
PAT_COMMA_AHEAD ==
    <<",", " ", "a", "h", "e", "a", "d">>
PAT_VOLUME_N ==
    <<",", " ", "v", "o", "l", "u", "m", "e", " ">>
PAT_ISSUE_N ==
    <<",", " ", "i", "s", "s", "u", "e", " ">>
PAT_PAGE ==
    <<",", " ", "p", "a", "g", "e">>
PAT_AVAILABLE_ONLINE ==
    <<"a", "v", "a", "i", "l", "a", "b", "l", "e", " ", "o", "n", "l",
          "i", "n", "e">>
PAT_GRAPHICAL_ABSTRACT ==
    <<"g", "r", "a", "p", "h", "i", "c", "a", "l", " ", "a", "b", "s",
          "t", "r", "a", "c", "t">>
PAT_ELLIPSIS ==
    <<".", ".", ".">>

\* re.search(pattern, excerpt, re.IGNORECASE) for a pattern of the list
metadata_indicators(excerpt) ==
    LET low == Fold(excerpt)
    IN  \/ At(low, 1, PAT_PUBLICATION_DATE)
        \/ /\ At(low, 1, PAT_SOURCE)
           /\ \E k \in 8..Len(low) :
                /\ At(low, k, PAT_VOLUME)
                /\ DigitRun(low, k + 7) >= 1
                /\ NoNewline(low, 8, k - 1)
        \/ At(low, 1, PAT_AUTHORS)
        \/ /\ At(low, 1, PAT_JOURNAL_OF)
           /\ \E k \in 12..Len(low) :
                /\ At(low, k, PAT_COMMA_VOLUME) \/ At(low, k, PAT_COMMA_AHEAD)
                /\ NoNewline(low, 12, k - 1)
        \/ \E k \in 1..Len(low) :
                /\ At(low, k, PAT_VOLUME_N)
                /\ LET a == k + 9
                       n == DigitRun(low, a)
                   IN  /\ n >= 1
                       /\ At(low, a + n, PAT_ISSUE_N)
                       /\ LET b == a + n + 8
                              m == DigitRun(low, b)
                          IN  m >= 1 /\ At(low, b + m, PAT_PAGE)
        \/ At(low, 1, PAT_AVAILABLE_ONLINE)
        \/ low = PAT_GRAPHICAL_ABSTRACT
        \/ low = PAT_GRAPHICAL_ABSTRACT \o <<"\n">>

\* the text record of a string that came from f
TextOf(s, f) == Text(f, Len(s), metadata_indicators(s))

\* _is_thin with an ellipsis rule that has no bound on the length
_is_thin_unbounded(excerpt) ==
    IF excerpt = <<>> \/ Len(excerpt) < ENHANCE_MIN_LEN
    THEN TRUE
    ELSE IF At(Fold(excerpt), 1, PAT_PUBLICATION_DATE)
    THEN TRUE
    ELSE LET s == strip(excerpt)
         IN  At(s, Len(s) - 2, PAT_ELLIPSIS)

_is_thin(excerpt) ==
    IF excerpt = <<>> \/ Len(excerpt) < ENHANCE_MIN_LEN
    THEN TRUE
    ELSE IF At(Fold(excerpt), 1, PAT_PUBLICATION_DATE)
    THEN TRUE
    ELSE LET s == strip(excerpt)
         IN  IF At(s, Len(s) - 2, PAT_ELLIPSIS) /\ Len(excerpt) < ELLIPSIS_LEN
             THEN TRUE
             ELSE FALSE

-----------------------------------------------------------------------------
(* The helpers _titles_match and resolve_title_to_doi applied on their own *)

TitleAlphabet == {"a", "b", " ", "-"}
ShortTitles == UNION {[1..n -> TitleAlphabet] : n \in 0..MaxTitleLen}
LongTitles ==
    {<<"a", " ", "b", " ", "c", " ", "d">>,
     <<"a", " ", "b", " ", "c", " ", "e">>,
     <<"a", " ", "b", " ", "c", " ", "d", " ", "e">>,
     <<"a", " ", "b", " ", "c", " ", "d", " ", "f">>,
     <<"d", " ", "c", " ", "b", " ", "a", " ", "e", " ", "f">>,
     <<" ", "A", "-", "B", ":", " ", " ", "c", " ">>,
     <<"a", "b", "c", "d">>}
TestTitles == ShortTitles \cup LongTitles

TitleCalls == {[fn |-> "_titles_match", a |-> x, b |-> y] : x, y \in TestTitles}

\* DOIs of a top hit: none, plain, supplementary, and near the suffix
HitDois == {NoDoi, DCr, DCrSupp, <<"10.9999", "s001">>, <<"10.9999", "abc", "s01">>,
            <<"10.9999", "abc", "s0012">>, <<"10.9999", "s001", "abc">>}
HitTitles == CandTitles \cup {<<>>, <<"m", "o", "u", "l", "d", "s">>}
Hits == {[title |-> t, DOI |-> d] : t \in HitTitles, d \in HitDois}
CrossrefAnswers ==
    Failures \cup {[kind |-> "ok", items |-> <<>>]}
        \cup {[kind |-> "ok", items |-> <<h>>] : h \in Hits}
        \cup {[kind |-> "ok", items |-> <<h, [title |-> TitleOf(UPii), DOI |-> DCr]>>] :
                h \in {x \in Hits : x.DOI = NoDoi}}

ResolveCalls ==
    {[fn |-> "resolve_title_to_doi", title |-> t, resp |-> r] :
        t \in {TitleOf(UDoi), TitleOf(UPii), <<>>}, r \in CrossrefAnswers}

\* Excerpts for the two classifiers: a head, a filling and a tail, at the
\* lengths around the two thresholds.
ExcerptHeads ==
    {[name |-> "plain", signature |-> "none",
      chars |->
        <<>>],
     [name |-> "pubdate", signature |-> "pattern",
      chars |->
        <<"P", "u", "b", "l", "i", "c", "a", "t", "i", "o", "n", " ", "d",
            "a", "t", "e", ":", " ", "M", "a", "y", " ", "2", "0", "2",
            "4">>],
     [name |-> "pubdate_upper", signature |-> "pattern",
      chars |->
        <<"P", "U", "B", "L", "I", "C", "A", "T", "I", "O", "N", " ", "D",
            "A", "T", "E", ":", " ", "M", "a", "y">>],
     [name |-> "pubdate_indented", signature |-> "none",
      chars |->
        <<" ", "P", "u", "b", "l", "i", "c", "a", "t", "i", "o", "n", " ",
            "d", "a", "t", "e", ":", " ", "M", "a", "y">>],
     [name |-> "source_volume", signature |-> "pattern",
      chars |->
        <<"S", "o", "u", "r", "c", "e", ":", " ", "F", "o", "o", "d", ",",
            " ", "V", "o", "l", "u", "m", "e", " ", "1", "2">>],
     [name |-> "source_no_number", signature |-> "none",
      chars |->
        <<"S", "o", "u", "r", "c", "e", ":", " ", "F", "o", "o", "d", ",",
            " ", "V", "o", "l", "u", "m", "e", " ", "X">>],
     [name |-> "source_newline", signature |-> "none",
      chars |->
        <<"S", "o", "u", "r", "c", "e", ":", "\n", "V", "o", "l", "u", "m",
            "e", " ", "3">>],
     [name |-> "authors", signature |-> "pattern",
      chars |->
        <<"A", "u", "t", "h", "o", "r", "(", "s", ")", ":", " ", "A", " ", "B">>],
     [name |-> "authors_plain", signature |-> "none",
      chars |->
        <<"A", "u", "t", "h", "o", "r", "s", ":", " ", "A", " ", "B">>],
     [name |-> "journal_volume", signature |-> "pattern",
      chars |->
        <<"J", "o", "u", "r", "n", "a", "l", " ", "o", "f", " ", "F", "o",
            "o", "d", ",", " ", "V", "o", "l", "u", "m", "e", " ", "3">>],
     [name |-> "journal_ahead", signature |-> "pattern",
      chars |->
        <<"j", "o", "u", "r", "n", "a", "l", " ", "o", "f", " ", "f", "o",
            "o", "d", ",", " ", "a", "h", "e", "a", "d", " ", "o", "f",
            " ", "p", "r", "i", "n", "t">>],
     [name |-> "journal_only", signature |-> "none",
      chars |->
        <<"J", "o", "u", "r", "n", "a", "l", " ", "o", "f", " ", "F", "o",
            "o", "d">>],
     [name |-> "volume_issue_page", signature |-> "pattern",
      chars |->
        <<"F", "o", "o", "d", ",", " ", "V", "o", "l", "u", "m", "e", " ",
            "3", ",", " ", "I", "s", "s", "u", "e", " ", "1", "2", ",",
            " ", "P", "a", "g", "e", "s", " ", "1", "-", "9">>],
     [name |-> "volume_page", signature |-> "none",
      chars |->
        <<"F", "o", "o", "d", ",", " ", "V", "o", "l", "u", "m", "e", " ",
            "3", ",", " ", "P", "a", "g", "e", " ", "1">>],
     [name |-> "available", signature |-> "pattern",
      chars |->
        <<"A", "v", "a", "i", "l", "a", "b", "l", "e", " ", "o", "n", "l",
            "i", "n", "e", " ", "3", " ", "M", "a", "y">>],
     [name |-> "graphical", signature |-> "whole",
      chars |->
        <<"G", "r", "a", "p", "h", "i", "c", "a", "l", " ", "a", "b", "s",
            "t", "r", "a", "c", "t">>]}
ExcerptTails ==
    {[name |-> "none", ellipsis |-> FALSE, chars |-> <<>>],
     [name |-> "ellipsis", ellipsis |-> TRUE, chars |-> <<".", ".", ".">>],
     [name |-> "ellipsis_blank", ellipsis |-> TRUE, chars |-> <<".", ".", ".", " ">>],
     [name |-> "two_dots", ellipsis |-> FALSE, chars |-> <<".", ".">>]}
ExcerptLens == {0, 18, 60, 99, 100, 101, 149, 150, 151, 200}
ExcerptCases ==
    {c \in [head : ExcerptHeads, len : ExcerptLens, tail : ExcerptTails] :
        c.len >= Len(c.head.chars) + Len(c.tail.chars)}
Build(c) ==
    c.head.chars
        \o [k \in 1..(c.len - Len(c.head.chars) - Len(c.tail.chars)) |-> "x"]
        \o c.tail.chars

\* the article whose excerpt enrich_abstracts classifies
ThinCalls ==
    {[fn |-> "is_thin_excerpt", case |-> c,
      article |-> [url |-> u, excerpt |-> TextOf(Build(c), f), abstract_source |-> s]] :
        c \in ExcerptCases, u \in {UPlain}, f \in {"feed", "openalex"},
        s \in {NoSource, "openalex"}}
SummarizerCalls ==
    {[fn |-> "_is_thin", case |-> c, excerpt |-> Build(c)] : c \in ExcerptCases}

\* rag_retrieve.format_context_for_prompt on the lengths of the strings: a
\* result is the length of its title and of its document and its similarity
\* in percent; the function returns the length of the context block.
HEADER_LEN == 51            \* "RELATED RESEARCH CONTEXT (from Mouldwire archive):\n"
TRUNCATION_MARGIN == 50     \* remaining = max_chars - total_chars - 50
TRUNCATION_MIN == 100       \* if remaining > 100

\* the digits of a number in decimal
DecimalLen(n) == IF n < 10 THEN 1 ELSE IF n < 100 THEN 2 ELSE 3

\* f"[Related finding {i} (similarity: {sim:.0%})]\n{title}\n": 17 characters,
\* the number, 14 characters, the percentage and its sign, 2 characters, the
\* newline, the title, the newline
EntryHeadLen(k, result) ==
    17 + DecimalLen(k) + 14 + (DecimalLen(result.similarity) + 1) + 2 + 1
        + result.title + 1

\* f"...{doc}\n"
EntryLen(k, result) == EntryHeadLen(k, result) + result.document + 1

\* f"...{doc[:remaining]}...\n"
TruncatedLen(k, result, remaining) ==
    EntryHeadLen(k, result) + Min(result.document, remaining) + 3 + 1

\* the loop over enumerate(results, 1) from result k on: the number of parts
\* and their total length
RECURSIVE FormatLoop(_, _, _, _, _)
FormatLoop(results, max_chars, k, parts, total_chars) ==
    IF k > Len(results) THEN [parts |-> parts, total_chars |-> total_chars]
    ELSE IF total_chars + EntryLen(k, results[k]) > max_chars
    THEN LET remaining == max_chars - total_chars - TRUNCATION_MARGIN
         IN  IF remaining > TRUNCATION_MIN
             THEN FormatLoop(results, max_chars, k + 1, parts + 1,
                     total_chars + TruncatedLen(k, results[k], remaining))
             ELSE [parts |-> parts, total_chars |-> total_chars]
    ELSE FormatLoop(results, max_chars, k + 1, parts + 1,
            total_chars + EntryLen(k, results[k]))

\* header + '\n'.join(parts)
format_context_for_prompt(results, max_chars) ==
    IF results = <<>> THEN 0
    ELSE LET done == FormatLoop(results, max_chars, 1, 0, 0)
         IN  IF done.parts = 0 THEN 0
             ELSE HEADER_LEN + done.total_chars + (done.parts - 1)

RetrievedResults ==
    [title : {7, 60}, document : {0, 100, 700, 2000}, similarity : {0, 85, 100}]
FormatCalls ==
    {[fn |-> "format_context_for_prompt", results |-> r, max_chars |-> m] :
        r \in UNION {[1..n -> RetrievedResults] : n \in 0..MaxResults},
        m \in {800, 1500}}

InitPure ==
    /\ call \in TitleCalls \cup ResolveCalls \cup ThinCalls \cup SummarizerCalls
                \cup FormatCalls
    /\ ret = NoRet
    /\ archive = <<>>
    /\ manifest = NoFile
    /\ env = [ELSEVIER_KEY |-> TRUE]
    /\ answers = NoAnswers
    /\ pc = "idle"
    /\ articles = <<>>
    /\ i = 1
    /\ doi = NoDoi
    /\ log = <<>>
    /\ before = NoStub
    /\ batch = <<>>
    /\ rerun = FALSE
    /\ runs = 0
    /\ oldManifest = NoFile
    /\ file = "missing"
    /\ loaded = "none"
    /\ OtherProgramsIdle

Returned(value) == [returned |-> TRUE, value |-> value]

ApplyTitlesMatch ==
    /\ call.fn = "_titles_match"
    /\ ~ret.returned
    /\ ret' = Returned(_titles_match(call.a, call.b))
    /\ UNCHANGED <<archive, manifest, env, answers, pc, articles, i, doi, log,
                   before, batch, rerun, runs, oldManifest, file, loaded, call, otherPrograms>>

ApplyResolveTitle ==
    /\ call.fn = "resolve_title_to_doi"
    /\ ~ret.returned
    /\ ret' = Returned(resolve_title_to_doi(call.title, call.resp))
    /\ UNCHANGED <<archive, manifest, env, answers, pc, articles, i, doi, log,
                   before, batch, rerun, runs, oldManifest, file, loaded, call, otherPrograms>>

ApplyIsThinExcerpt ==
    /\ call.fn = "is_thin_excerpt"
    /\ ~ret.returned
    /\ ret' = Returned(is_thin_excerpt(call.article.excerpt))
    /\ UNCHANGED <<archive, manifest, env, answers, pc, articles, i, doi, log,
                   before, batch, rerun, runs, oldManifest, file, loaded, call, otherPrograms>>

ApplyIsThin ==
    /\ call.fn = "_is_thin"
    /\ ~ret.returned
    /\ ret' = Returned(_is_thin(call.excerpt))
    /\ UNCHANGED <<archive, manifest, env, answers, pc, articles, i, doi, log,
                   before, batch, rerun, runs, oldManifest, file, loaded, call, otherPrograms>>

ApplyFormatContext ==
    /\ call.fn = "format_context_for_prompt"
    /\ ~ret.returned
    /\ ret' = Returned(format_context_for_prompt(call.results, call.max_chars))
    /\ UNCHANGED <<archive, manifest, env, answers, pc, articles, i, doi, log,
                   before, batch, rerun, runs, oldManifest, file, loaded, call, otherPrograms>>

NextPure ==
    \/ ApplyTitlesMatch
    \/ ApplyResolveTitle
    \/ ApplyIsThinExcerpt
    \/ ApplyIsThin
    \/ ApplyFormatContext

SpecPure == InitPure /\ [][NextPure]_vars

-----------------------------------------------------------------------------
(* generate_system_log.py: the system log and its engine-change detector    *)

\* the variables of fetch_news.py as they are while it does not run
PipelineIdle ==
    /\ archive = <<>>
    /\ manifest = NoFile
    /\ env = [ELSEVIER_KEY |-> TRUE]
    /\ answers = NoAnswers
    /\ pc = "idle"
    /\ articles = <<>>
    /\ i = 1
    /\ doi = NoDoi
    /\ log = <<>>
    /\ before = NoStub
    /\ batch = <<>>
    /\ rerun = FALSE
    /\ runs = 0
    /\ oldManifest = NoFile
    /\ file = "missing"
    /\ loaded = "none"
    /\ call = NoCall
    /\ ret = NoRet

\* what detect_engine_changes and get_engine_meta read in enhance_articles.py:
\* the model_id, the 'Write N sentences' of the prompt, the presence of
\* JARGON_MAP and of 'READABILITY:', the number of r'\b patterns
CurrentScript ==
    [exists |-> TRUE, model |-> "claude-haiku-4-5-20251001",
     sentence_spec |-> "5 to 7", has_jargon |-> TRUE, has_readability |-> TRUE,
     acronym_count |-> 100]
Scripts ==
    {CurrentScript,
     [CurrentScript EXCEPT !.model = "org/model-b"],
     [exists |-> TRUE, model |-> "unknown", sentence_spec |-> "",
      has_jargon |-> FALSE, has_readability |-> FALSE, acronym_count |-> 0],
     NoScript}

NoMeta == [exists |-> FALSE]
NoEntry == [type |-> "none"]

\* an event text: what it says and the model name or number it mentions
Event(text, mentions) == [text |-> text, mentions |-> mentions]

\* the seed entries of load_log, dated 2026-02-01, 02-07 and 02-10
SeedEntries ==
    <<[date |-> 1, type |-> "milestone",
       event |-> Event("Mouldwire v0.3 active", ""), meta |-> NoMeta],
      [date |-> 7, type |-> "calibration",
       event |-> Event("field guide logic implemented", ""), meta |-> NoMeta],
      [date |-> 10, type |-> "engine",
       event |-> Event("Updated instruction set", "Llama-3-8B-Instruct"),
       meta |-> NoMeta]>>

load_log ==
    IF syslog.exists
    THEN [entries |-> syslog.entries, run_history |-> syslog.run_history]
    ELSE [entries |-> SeedEntries, run_history |-> 0]

\* current_model.split('/')[-1]
model_short(model) == IF model = "org/model-b" THEN "model-b" ELSE model

\* current_model in event, for the model names of Scripts: none of them is
\* part of another name
InEvent(model, event) == event.mentions = model

\* last_engine.get('_meta', {}).get(field, default)
MetaGet(entry, field, default) ==
    IF entry.meta.exists THEN entry.meta[field] ELSE default

\* for entry in reversed(log_entries): the engine entry nearest the end
last_engine(log_entries) ==
    LET engine == {k \in 1..Len(log_entries) : log_entries[k].type = "engine"}
    IN  IF engine = {} THEN NoEntry
        ELSE log_entries[CHOOSE k \in engine : \A l \in engine : l <= k]

detect_engine_changes(log_entries, source) ==
    IF ~source.exists THEN <<>>
    ELSE
    LET last == last_engine(log_entries)
        found == last # NoEntry
        model ==
            IF found /\ ~InEvent(source.model, last.event)
            THEN <<Event("Inference engine updated", model_short(source.model))>>
            ELSE <<>>
        sentences ==
            IF /\ source.sentence_spec # ""
               /\ found
               /\ source.sentence_spec # MetaGet(last, "sentence_spec", "")
            THEN <<Event("Summary structure updated", source.sentence_spec)>>
            ELSE <<>>
        jargon ==
            IF source.has_jargon /\ found /\ ~MetaGet(last, "has_jargon", FALSE)
            THEN <<Event("Readability layer added", "")>>
            ELSE <<>>
        acronyms ==
            IF found /\ source.acronym_count > MetaGet(last, "acronym_count", 0) + 5
            THEN <<Event("Acronym expansion dictionary updated", source.acronym_count)>>
            ELSE <<>>
        readability ==
            IF /\ source.has_readability
               /\ found
               /\ ~MetaGet(last, "has_readability", FALSE)
            THEN <<Event("Readability instructions embedded", "")>>
            ELSE <<>>
    IN  model \o sentences \o jargon \o acronyms \o readability

get_engine_meta(source) ==
    IF ~source.exists THEN NoMeta
    ELSE [exists |-> TRUE, model |-> source.model,
          sentence_spec |-> source.sentence_spec, has_jargon |-> source.has_jargon,
          has_readability |-> source.has_readability,
          acronym_count |-> source.acronym_count]

RUN_HISTORY_CAP == 100
Milestones == {50, 100, 200, 500, 1000, 2000, 5000}

\* list.sort(key=date, reverse=True): stable, later dates first
RECURSIVE InsertByDate(_, _)
InsertByDate(sorted, entry) ==
    IF sorted = <<>> THEN <<entry>>
    ELSE IF Head(sorted).date >= entry.date
         THEN <<Head(sorted)>> \o InsertByDate(Tail(sorted), entry)
         ELSE <<entry>> \o sorted

RECURSIVE SortByDate(_, _)
SortByDate(acc, list) ==
    IF list = <<>> THEN acc
    ELSE SortByDate(InsertByDate(acc, Head(list)), Tail(list))

\* the milestones of the list in ascending order
RECURSIVE Ascending(_)
Ascending(set) ==
    IF set = {} THEN <<>>
    ELSE LET m == CHOOSE x \in set : \A y \in set : x <= y
         IN  <<m>> \o Ascending(set \ {m})

\* generate_system_log.main with total articles in mould_news.json, new_today
\* of them published today
GenerateLog(total, new_today) ==
    /\ previous.runs < MaxLogRuns
    /\ LET loadedLog == load_log
           engine_changes == detect_engine_changes(loadedLog.entries, script)
           engine ==
                [k \in 1..Len(engine_changes) |->
                    [date |-> today, type |-> "engine", event |-> engine_changes[k],
                     meta |-> get_engine_meta(script)]]
           withEngine == loadedLog.entries \o engine
           logged ==
                {withEngine[k].event.mentions :
                    k \in {l \in 1..Len(withEngine) :
                            /\ withEngine[l].type = "milestone"
                            /\ withEngine[l].event.text = "Archive reached"}}
           reached == Ascending({m \in Milestones : total >= m /\ m \notin logged})
           milestone ==
                [k \in 1..Len(reached) |->
                    [date |-> today, type |-> "milestone",
                     event |-> Event("Archive reached", reached[k]),
                     meta |-> NoMeta]]
           withMilestones == withEngine \o milestone
           existing_daily ==
                \E k \in 1..Len(withMilestones) :
                    /\ withMilestones[k].type = "daily"
                    /\ withMilestones[k].date = today
           daily ==
                IF ~existing_daily /\ new_today > 0
                THEN <<[date |-> today, type |-> "daily",
                        event |-> Event("new articles collected today", new_today),
                        meta |-> NoMeta]>>
                ELSE <<>>
       IN  /\ syslog' =
                [exists |-> TRUE,
                 entries |-> SortByDate(<<>>, withMilestones \o daily),
                 run_history |-> Min(loadedLog.run_history + 1, RUN_HISTORY_CAP)]
           /\ previous' =
                [runs |-> previous.runs + 1,
                 script |-> script,
                 same |-> previous.runs >= 1 /\ previous.script = script,
                 added |-> Len(engine_changes)]
    /\ UNCHANGED <<archive, file, pipeVars, call, ret, frame, script, today,
                   enhanced, sent, ragVars>>

\* somebody edits enhance_articles.py
EditScript(source) ==
    /\ source # script
    /\ script' = source
    /\ UNCHANGED <<archive, file, pipeVars, call, ret, frame, syslog, today,
                   previous, enhanced, sent, ragVars>>

\* midnight
NextDay ==
    /\ today < MaxDay
    /\ today' = today + 1
    /\ UNCHANGED <<archive, file, pipeVars, call, ret, frame, syslog, script,
                   previous, enhanced, sent, ragVars>>

InitLog ==
    /\ PipelineIdle
    /\ frame = NoFrame
    /\ syslog = NoLog
    /\ script \in Scripts
    /\ today = FirstDay
    /\ previous = NoPrevious
    /\ enhanced = NoEnhanced
    /\ sent = NoSent
    /\ collection = {}
    /\ abstracts = {}
    /\ upserted = [run |-> 0]

NextLog ==
    \/ \E total \in {0, 60}, new_today \in {0, 2} : GenerateLog(total, new_today)
    \/ \E source \in Scripts : EditScript(source)
    \/ NextDay

SpecLog == InitLog /\ [][NextLog]_vars

-----------------------------------------------------------------------------
(* enhance_articles.main: which articles are sent to the model, and the     *)
(* rolling archive articles_enhanced.json.  Here the excerpts of            *)
(* mould_news.json are strings, as _is_thin reads them.                     *)

NewsUrls == {UDoi, UPii}

\* excerpts of 60 characters, of 120 that end in an ellipsis, and of 150
NewsExcerpts ==
    {[k \in 1..60 |-> "x"],
     [k \in 1..117 |-> "x"] \o PAT_ELLIPSIS,
     [k \in 1..150 |-> "x"]}

\* an article as fetch_news.py writes it
NewsArticles ==
    {[url |-> u, title |-> TitleOf(u), excerpt |-> e, pubDate |-> PubDateOf(u)] :
        u \in NewsUrls, e \in NewsExcerpts}

\* 'WEAK SIGNAL' in prev_summary or 'hot off the press' in prev_summary.  The
\* summaries are of three kinds: the weak-signal message of the prompt, any
\* other answer of the model, and the fallback written after an AI error
\* (title and excerpt of the model do not contain the two phrases).
was_weak(summary) == summary.kind = "weak"

\* existing_enhanced = {a['url']: a for a in existing_enhanced_list}
existing_enhanced ==
    IF enhanced.exists THEN DictFrom(<<>>, enhanced.list) ELSE <<>>

\* a gate that sends every article
needs_enhancement_always(article) == TRUE

needs_enhancement(article) ==
    IF IndexOf(existing_enhanced, article.url) = 0
    THEN TRUE
    ELSE LET prev == existing_enhanced[IndexOf(existing_enhanced, article.url)]
             now_has_abstract == ~_is_thin(article.excerpt)
         IN  IF was_weak(prev.summary) /\ now_has_abstract THEN TRUE ELSE FALSE

\* what the model call of the loop gives for an article
AiAnswers == {"full", "weak", "error"}

\* {**article, 'summary': ..., 'enhanced': True, 'enhanced_at': ...}; the
\* time of a run is its number
EnhancedDict(article, answer, now) ==
    [url |-> article.url, title |-> article.title, excerpt |-> article.excerpt,
     pubDate |-> article.pubDate,
     summary |-> [kind |-> IF answer = "error" THEN "fallback" ELSE answer],
     enhanced |-> TRUE, enhanced_at |-> now]

\* main with ANTHROPIC_API_KEY set and mould_news.json readable
EnhanceRun(ai) ==
    /\ sent.run < MaxEnhanceRuns
    /\ file = "list"
    /\ LET new_articles == SelectSeq(archive, needs_enhancement)
           enhanced_articles ==
                [k \in 1..Len(new_articles) |->
                    EnhancedDict(new_articles[k], ai[new_articles[k].url],
                                 sent.run + 1)]
           all_enhanced ==
                SortDesc(<<>>, DictFrom(existing_enhanced, enhanced_articles))
       IN  /\ enhanced' = [exists |-> TRUE, list |-> all_enhanced]
           /\ sent' = [run |-> sent.run + 1,
                       urls |-> {new_articles[k].url : k \in 1..Len(new_articles)}]
    /\ UNCHANGED <<archive, file, pipeVars, call, ret, frame, logVars, ragVars>>

\* a run of fetch_news.py leaves a new article, or a known one with another
\* excerpt, in mould_news.json
NewsUpdate(article) ==
    /\ file = "list"
    /\ Merge(archive, <<article>>) # archive
    /\ archive' = Merge(archive, <<article>>)
    /\ UNCHANGED <<file, pipeVars, call, ret, frame, logVars, enhanced, sent,
                   ragVars>>

InitEnhance ==
    /\ archive = <<>>
    /\ file = "list"
    /\ manifest = NoFile
    /\ env = [ELSEVIER_KEY |-> TRUE]
    /\ answers = NoAnswers
    /\ pc = "idle"
    /\ articles = <<>>
    /\ i = 1
    /\ doi = NoDoi
    /\ log = <<>>
    /\ before = NoStub
    /\ batch = <<>>
    /\ rerun = FALSE
    /\ runs = 0
    /\ oldManifest = NoFile
    /\ loaded = "none"
    /\ call = NoCall
    /\ ret = NoRet
    /\ OtherProgramsIdle

NextEnhance ==
    \/ \E ai \in [NewsUrls -> AiAnswers] : EnhanceRun(ai)
    \/ \E article \in NewsArticles : NewsUpdate(article)

SpecEnhance == InitEnhance /\ [][NextEnhance]_vars

-----------------------------------------------------------------------------
(* rag_ingest.chunk_text, one loop iteration at a time                      *)

\* text.split(): the maximal runs of non-blank characters, in order
RECURSIVE split(_)
split(text) ==
    IF text = <<>> THEN <<>>
    ELSE IF Head(text) = " " THEN split(Tail(text))
    ELSE LET blanks == {k \in 1..Len(text) : text[k] = " "}
             stop == IF blanks = {} THEN Len(text) + 1
                     ELSE CHOOSE k \in blanks : \A l \in blanks : k <= l
         IN  <<SubSeq(text, 1, stop - 1)>> \o split(SubSeq(text, stop, Len(text)))

\* ' '.join(words)
RECURSIVE join(_)
join(words) ==
    IF words = <<>> THEN <<>>
    ELSE IF Len(words) = 1 THEN words[1]
    ELSE words[1] \o <<" ">> \o join(Tail(words))

\* words[start:end] for 0 <= start
PySlice(words, start, end) == SubSeq(words, start + 1, Min(end, Len(words)))

\* a loop that starts the next chunk one word after the end of this one
NextStartSkip(end, overlap) == end + 1

\* start = end - overlap
NextStart(end, overlap) == end - overlap

ChunkAlphabet == {"a", "b", " "}
ChunkTexts == UNION {[1..n -> ChunkAlphabet] : n \in 0..MaxText}
ChunkCalls ==
    {[fn |-> "chunk_text", text |-> t, max_words |-> m, overlap |-> o] :
        t \in ChunkTexts, m \in 1..MaxWords, o \in 0..(MaxWords - 1)}

\* words = text.split(); a short text is returned as it is
ChunkEnter ==
    /\ call.fn = "chunk_text"
    /\ frame = NoFrame
    /\ ~ret.returned
    /\ IF Len(split(call.text)) <= call.max_words
       THEN /\ ret' = Returned(<<call.text>>)
            /\ frame' = NoFrame
       ELSE /\ frame' = [fn |-> "chunk_text", words |-> split(call.text),
                         start |-> 0, chunks |-> <<>>]
            /\ ret' = ret
    /\ UNCHANGED <<archive, file, pipeVars, call, logVars, enhanced, sent,
                   ragVars>>

\* one iteration of while start < len(words)
ChunkIterate ==
    /\ frame.fn = "chunk_text"
    /\ frame.start < Len(frame.words)
    /\ LET end == frame.start + call.max_words
           chunk == join(PySlice(frame.words, frame.start, end))
       IN  frame' = [frame EXCEPT !.chunks = Append(@, chunk),
                                  !.start = NextStart(end, call.overlap)]
    /\ UNCHANGED <<archive, file, pipeVars, call, ret, logVars, enhanced, sent,
                   ragVars>>

\* return chunks
ChunkReturn ==
    /\ frame.fn = "chunk_text"
    /\ ~(frame.start < Len(frame.words))
    /\ ret' = Returned(frame.chunks)
    /\ frame' = NoFrame
    /\ UNCHANGED <<archive, file, pipeVars, call, logVars, enhanced, sent,
                   ragVars>>

InitChunk ==
    /\ call \in {c \in ChunkCalls : c.overlap < c.max_words}
    /\ ret = NoRet
    /\ archive = <<>>
    /\ manifest = NoFile
    /\ env = [ELSEVIER_KEY |-> TRUE]
    /\ answers = NoAnswers
    /\ pc = "idle"
    /\ articles = <<>>
    /\ i = 1
    /\ doi = NoDoi
    /\ log = <<>>
    /\ before = NoStub
    /\ batch = <<>>
    /\ rerun = FALSE
    /\ runs = 0
    /\ oldManifest = NoFile
    /\ file = "missing"
    /\ loaded = "none"
    /\ OtherProgramsIdle

NextChunk ==
    \/ ChunkEnter
    \/ ChunkIterate
    \/ ChunkReturn

\* the interpreter goes on as long as the function has a step to take
SpecChunk == InitChunk /\ [][NextChunk]_vars /\ WF_vars(NextChunk)

-----------------------------------------------------------------------------
(* rag_ingest.ingest_articles.  Here an article is read for its url, its     *)
(* title and the number of words and of characters of its text (the summary *)
(* if it has one, else the excerpt); a ChromaDB collection is the set of its *)
(* documents, each with its id and its number of words.                     *)

MAX_CHUNK_LENGTH == 500
CHUNK_OVERLAP == 50
ABSTRACT_MIN_LEN == 30

\* the while loop of chunk_text from start on, on the list of words
RECURSIVE ChunkLoop(_, _, _, _, _)
ChunkLoop(words, max_words, overlap, start, chunks) ==
    IF start < Len(words)
    THEN ChunkLoop(words, max_words, overlap,
                   NextStart(start + max_words, overlap),
                   Append(chunks, PySlice(words, start, start + max_words)))
    ELSE chunks

\* chunk_text for a document of n words: the numbers of words of its chunks
chunk_text(n, max_words, overlap) ==
    IF n <= max_words THEN <<n>>
    ELSE LET chunks == ChunkLoop([k \in 1..n |-> "w"], max_words, overlap, 0, <<>>)
         IN  [j \in 1..Len(chunks) |-> Len(chunks[j])]

IngestUrls == {UDoi, UPlain}
IngestTexts == {[words |-> 5, chars |-> 20], [words |-> 60, chars |-> 300],
                [words |-> 500, chars |-> 3000]}
RawArticles ==
    {[url |-> u, title |-> TitleOf(u), source |-> SourceOf(u), text |-> t,
      pubDate |-> PubDateOf(u), enhanced |-> FALSE] :
        u \in IngestUrls, t \in IngestTexts}

\* article_id: the md5 of the url stands for the url
article_id(article) == article.url

\* the id of an unchunked document, as doc_id in existing_ids compares it:
\* the doc_id with no chunk index after it
PlainId(doc_id) == [doc |-> doc_id, chunk |-> -1]

\* f"{doc_id}_{i}" if there is more than one chunk, else doc_id
ChunkId(doc_id, k, total) ==
    IF total > 1 THEN [doc |-> doc_id, chunk |-> k] ELSE PlainId(doc_id)

\* prepare_article_document: the words of "Title: {title}", of the text and of
\* "Source: {source}"; None without url or title
prepare_article_document(article) ==
    IF article.title = <<>>
    THEN [usable |-> FALSE]
    ELSE [usable |-> TRUE, doc_id |-> article_id(article),
          words |-> 1 + Len(split(article.title)) + article.text.words + 2]

Ids(coll) == {d.id : d \in coll}

\* collection.upsert: a document replaces the one that has its id
Upsert(coll, docs) == {d \in coll : d.id \notin Ids(docs)} \cup docs

\* articles = {}: the raw articles by url, overwritten by the enhanced ones
all_articles ==
    LET raw == IF file = "list" THEN archive ELSE <<>>
        rich == IF enhanced.exists THEN enhanced.list ELSE <<>>
    IN  DictFrom(DictFrom(<<>>, raw), rich)

\* the documents ingest_articles adds for the articles it does not skip
DocsToAdd(list, incremental, existing_ids) ==
    UNION {LET prepared == prepare_article_document(list[k])
               chunks == chunk_text(prepared.words, MAX_CHUNK_LENGTH, CHUNK_OVERLAP)
           IN  IF ~prepared.usable THEN {}
               ELSE IF incremental /\ PlainId(prepared.doc_id) \in existing_ids
               THEN {}
               ELSE {[id |-> ChunkId(prepared.doc_id, j - 1, Len(chunks)),
                      words |-> chunks[j]] : j \in 1..Len(chunks)} :
           k \in 1..Len(list)}

\* the documents ingest_abstracts adds
AbstractsToAdd(list, skip_ids) ==
    UNION {IF PlainId(article_id(list[k])) \in skip_ids THEN {}
           ELSE IF list[k].text.chars = 0 \/ list[k].text.chars < ABSTRACT_MIN_LEN
           THEN {}
           ELSE {[id |-> PlainId(article_id(list[k])), words |-> list[k].text.words]} :
           k \in 1..Len(list)}

\* rag_ingest.main with --rebuild, --full or neither
ingest_articles(rebuild, incremental) ==
    /\ upserted.run < MaxIngestRuns
    /\ LET dropped == IF rebuild THEN {} ELSE collection
           existing_ids == IF incremental /\ dropped # {} THEN Ids(dropped) ELSE {}
           docs_to_add == DocsToAdd(all_articles, incremental, existing_ids)
           done == all_articles = <<>> \/ docs_to_add = {}
           abstracts_to_add ==
                IF done THEN {} ELSE AbstractsToAdd(all_articles, existing_ids)
       IN  /\ collection' = Upsert(dropped, docs_to_add)
           /\ abstracts' =
                IF done THEN abstracts
                ELSE Upsert(IF rebuild THEN {} ELSE abstracts, abstracts_to_add)
           /\ upserted' =
                [run |-> upserted.run + 1, incremental |-> incremental,
                 before |-> collection,
                 articles |-> Ids(docs_to_add),
                 abstracts |-> Ids(abstracts_to_add)]
    /\ UNCHANGED <<archive, file, pipeVars, call, ret, frame, logVars, enhanced,
                   sent>>

\* a run of fetch_news.py leaves a new article in mould_news.json
NewsArrives(article) ==
    /\ file = "list"
    /\ IndexOf(archive, article.url) = 0
    /\ archive' = Merge(archive, <<article>>)
    /\ UNCHANGED <<file, pipeVars, call, ret, frame, logVars, enhanced, sent,
                   ragVars>>

\* a run of enhance_articles.py adds the summary of an article to
\* articles_enhanced.json
SummaryArrives(k, summary) ==
    /\ file = "list"
    /\ k \in 1..Len(archive)
    /\ IndexOf(enhanced.list, archive[k].url) = 0
    /\ enhanced' =
            [exists |-> TRUE,
             list |-> SortDesc(<<>>,
                        DictPut(enhanced.list,
                                [archive[k] EXCEPT !.text = summary,
                                                   !.enhanced = TRUE]))]
    /\ UNCHANGED <<archive, file, pipeVars, call, ret, frame, logVars, sent,
                   ragVars>>

InitIngest ==
    /\ archive = <<>>
    /\ file = "list"
    /\ manifest = NoFile
    /\ env = [ELSEVIER_KEY |-> TRUE]
    /\ answers = NoAnswers
    /\ pc = "idle"
    /\ articles = <<>>
    /\ i = 1
    /\ doi = NoDoi
    /\ log = <<>>
    /\ before = NoStub
    /\ batch = <<>>
    /\ rerun = FALSE
    /\ runs = 0
    /\ oldManifest = NoFile
    /\ loaded = "none"
    /\ call = NoCall
    /\ ret = NoRet
    /\ frame = NoFrame
    /\ syslog = NoLog
    /\ script = NoScript
    /\ today = 0
    /\ previous = NoPrevious
    /\ enhanced = NoEnhanced
    /\ sent = NoSent
    /\ collection = {}
    /\ abstracts = {}
    /\ upserted = [run |-> 0]

NextIngest ==
    \/ ingest_articles(TRUE, FALSE)
    \/ ingest_articles(FALSE, FALSE)
    \/ ingest_articles(FALSE, TRUE)
    \/ \E article \in RawArticles : NewsArrives(article)
    \/ \E k \in 1..2, summary \in IngestTexts : SummaryArrives(k, summary)

SpecIngest == InitIngest /\ [][NextIngest]_vars

-----------------------------------------------------------------------------
(* Observations shared by the properties *)

CallSteps == {"elsevier", "crossref", "semantic_scholar", "openalex",
              "europepmc", "web_scrape"}
IdServices == {"semantic_scholar", "openalex", "europepmc"}
CascadeOrder == <<"semantic_scholar", "openalex", "europepmc", "web_scrape">>

\* the loop body is at work on articles[i], which it found as before
InBody == pc \in CallSteps

\* the loop body has just finished articles[i - 1], which it found as before
Finished == pc = "loop" /\ i > 1

\* the requests of this iteration to the abstract sources, in order
Cascade == SelectSeq(log, LAMBDA c : c \in IdServices \cup {"web_scrape"})

Asked(service) == answers[service][before.url].kind = "asked"
Result(service) == answers[service][before.url].result

IsPrefix(a, b) == Len(a) <= Len(b) /\ SubSeq(b, 1, Len(a)) = a

\* the iteration asked at least one source and every source it asked failed
AllFailed ==
    /\ Cascade # <<>>
    /\ Cascade[Len(Cascade)] = "web_scrape"
    /\ \A k \in 1..Len(Cascade) : ~Truthy(Result(Cascade[k]))

-----------------------------------------------------------------------------
(* Properties *)

\* C1: a run never turns a non-thin archived excerpt into a thin one: every
\* url whose excerpt in the archive is non-thin when a run starts still has
\* a non-thin excerpt in the archive the run writes.
C1_NoRegression ==
    [][pc' = "done" =>
        \A j \in 1..Len(archive) :
            ~is_thin_excerpt(archive[j].excerpt) =>
                \A k \in 1..Len(archive') :
                    archive'[k].url = archive[j].url =>
                        ~is_thin_excerpt(archive'[k].excerpt)]_vars

\* C2: when every source fails for a thin article, the article's excerpt
\* after the attempt is the excerpt it had before the attempt.
C2_FailedAttemptKeepsExcerpt ==
    (Finished /\ is_thin_excerpt(before.excerpt) /\ AllFailed)
        => articles[i - 1].excerpt = before.excerpt

\* C3: an article whose excerpt is non-thin when the loop reaches it causes
\* no request and no sleep, and is left as it was; the loop body is only ever
\* at work on an article it found thin.
C3_RetryGating ==
    /\ InBody => is_thin_excerpt(before.excerpt)
    /\ (Finished /\ ~is_thin_excerpt(before.excerpt))
            => (log = <<>> /\ articles[i - 1] = before)

C3_Witness ==
    /\ Finished
    /\ runs >= 2
    /\ ~is_thin_excerpt(before.excerpt)
    /\ before.abstract_source # NoSource

\* C4: an article is submitted to the sources if and only if the loop found
\* its excerpt thin, whatever its abstract_source held.
C4_RetryCondition ==
    Finished => ((Cascade # <<>>) <=> is_thin_excerpt(before.excerpt))

C4_Witness ==
    /\ Finished
    /\ runs >= 2
    /\ is_thin_excerpt(before.excerpt)
    /\ before.abstract_source # NoSource
    /\ Cascade # <<>>

C6_CascadeOrder ==
    ((InBody \/ Finished) /\ is_thin_excerpt(before.excerpt) /\ doi # NoDoi) =>
        /\ IsPrefix(Cascade, CascadeOrder)
        /\ \A k \in 1..(Len(Cascade) - 1) : ~Truthy(Result(Cascade[k]))
        /\ (Finished /\ Cascade # <<>>) =>
             LET last == Cascade[Len(Cascade)]
             IN  IF Truthy(Result(last))
                 THEN /\ articles[i - 1].abstract_source = last
                      /\ articles[i - 1].excerpt = Slice(Result(last), EXCERPT_CAP)
                 ELSE /\ last = "web_scrape"
                      /\ articles[i - 1].abstract_source = NoSource

C6_Witness ==
    /\ Finished
    /\ is_thin_excerpt(before.excerpt)
    /\ doi # NoDoi
    /\ Cascade = <<"semantic_scholar", "openalex">>
    /\ articles[i - 1].abstract_source = "openalex"

\* C7: without a DOI the page scrape is the only source asked; with a DOI and
\* nothing from the three identifier-based services the page scrape is asked;
\* a successful scrape is recorded as web_scrape.
C7_ScrapeFallback ==
    /\ ((InBody \/ Finished) /\ doi = NoDoi)
            => \A k \in 1..Len(Cascade) : Cascade[k] = "web_scrape"
    /\ (Finished /\ is_thin_excerpt(before.excerpt)) =>
        /\ doi = NoDoi => Cascade = <<"web_scrape">>
        /\ (doi # NoDoi /\ \A s \in IdServices : Asked(s) /\ ~Truthy(Result(s)))
                => Cascade = CascadeOrder
        /\ (Cascade # <<>> /\ Cascade[Len(Cascade)] = "web_scrape"
                /\ Truthy(Result("web_scrape")))
                => /\ articles[i - 1].abstract_source = "web_scrape"
                   /\ articles[i - 1].excerpt = Slice(Result("web_scrape"), EXCERPT_CAP)

C7_Witness ==
    /\ Finished
    /\ is_thin_excerpt(before.excerpt)
    /\ before.title # <<>>
    /\ doi = NoDoi
    /\ Cascade = <<"web_scrape">>
    /\ articles[i - 1].abstract_source = "web_scrape"

\* C8: an abstract shorter than MIN_ABSTRACT_LEN that an identifier-based
\* service returned is not written to the excerpt and not recorded as the
\* abstract_source.
C8_ShortAbstractUnusable ==
    Finished =>
        \A k \in 1..Len(Cascade) :
            (Cascade[k] \in IdServices
                /\ Result(Cascade[k]).len < MIN_ABSTRACT_LEN)
            => /\ articles[i - 1].abstract_source # Cascade[k]
               /\ k < Len(Cascade)

\* C9: once a DOI was resolved for a thin article, the article carries it in
\* its doi field.
C9_IdentifierStored ==
    (Finished /\ is_thin_excerpt(before.excerpt) /\ doi # NoDoi)
        => articles[i - 1].doi = doi

\* C10: the manifest a run writes lists exactly the thin articles of the
\* archive it writes, and a run that repeats the run before it on the
\* unchanged archive with the same answers leaves the manifest as it was.
ManifestExact(m, list) ==
    LET thin == {j \in 1..Len(list) : is_thin_excerpt(list[j].excerpt)}
    IN  /\ m.exists <=> thin # {}
        /\ Len(m.entries) = Cardinality(thin)
        /\ \A j \in thin : \E k \in 1..Len(m.entries) :
                /\ m.entries[k].url = list[j].url
                /\ m.entries[k].title = list[j].title
                /\ m.entries[k].category = list[j].category
                /\ m.entries[k].pubDate = list[j].pubDate
        /\ \A k \in 1..Len(m.entries) : \E j \in thin :
                m.entries[k].url = list[j].url

C10_ManifestComplete ==
    [][pc' = "done" =>
        /\ ManifestExact(manifest', archive')
        /\ rerun => manifest' = manifest]_vars

C10_Witness ==
    /\ pc = "done"
    /\ rerun
    /\ manifest.exists
    /\ Len(manifest.entries) < Len(archive)


\* C11: every run replaces the manifest: when the archive it writes has a
\* thin article, the manifest files hold one entry per thin article of that
\* archive and no entry of the manifest before it that is not one of them;
\* when it has none, no manifest file is left, whatever was there before.
ThinUrls(list) ==
    {list[j].url : j \in {k \in 1..Len(list) : is_thin_excerpt(list[k].excerpt)}}

EntryUrls(m) == {m.entries[k].url : k \in 1..Len(m.entries)}

C11_ManifestReplaced ==
    pc = "done" =>
        IF ThinUrls(archive) # {}
        THEN /\ manifest.exists
             /\ EntryUrls(manifest) = ThinUrls(archive)
             /\ \A k, l \in 1..Len(manifest.entries) :
                    manifest.entries[k].url = manifest.entries[l].url => k = l
        ELSE manifest = NoFile

C11_Witness ==
    /\ pc = "done"
    /\ oldManifest.exists
    /\ manifest.exists
    /\ EntryUrls(oldManifest) \ EntryUrls(manifest) # {}


\* C12: the merged list holds at most one article per url, every url of the
\* archive the run loaded and every url of the fresh batch; the archive a run
\* writes holds every url of the archive it loaded, each once; the patch of
\* enrich_from_pdfs keeps the urls too.
Keys(list) == {list[j].url : j \in 1..Len(list)}

UniqueKeys(list) ==
    \A j, k \in 1..Len(list) : list[j].url = list[k].url => j = k

C12_ArchiveKeys ==
    [][/\ (pc \in {"idle", "done"} /\ pc' = "loop") =>
            /\ UniqueKeys(articles')
            /\ Keys(articles') = Keys(existing_articles) \cup Keys(batch')
       /\ pc' = "done" =>
            /\ UniqueKeys(archive')
            /\ Keys(existing_articles) \subseteq Keys(archive')
       /\ (pc' = "idle" /\ file' = "list") =>
            /\ UniqueKeys(archive')
            /\ Keys(existing_articles) \subseteq Keys(archive')]_vars

C12_Witness ==
    /\ pc = "loop"
    /\ i = 1
    /\ loaded = "list"
    /\ archive # <<>>
    /\ batch # <<>>
    /\ Keys(batch) \cap Keys(archive) = {}
    /\ Keys(articles) = Keys(archive) \cup Keys(batch)

\* C13: merging a sorted archive of unique urls with a fresh batch equal to
\* the archive gives the archive back: the same dicts with the same field
\* values in the same order.
C13_MergeIdempotent ==
    (pc = "loop" /\ batch = archive) => articles = archive

C13_Witness ==
    /\ pc = "loop"
    /\ batch = archive
    /\ Len(archive) = 2
    /\ archive[1].pubDate = archive[2].pubDate
    /\ archive[1].abstract_source # NoSource
    /\ articles = archive

\* C14: the loop body sleeps once per external request it makes for an
\* article: as many sleeps as requests, and a sleep between every two
\* consecutive requests.
Requests == SelectSeq(log, LAMBDA c : c # "sleep")
Sleeps == SelectSeq(log, LAMBDA c : c = "sleep")

C14_DelayPerCall ==
    Finished =>
        /\ Len(Sleeps) = Len(Requests)
        /\ \A k \in 1..(Len(log) - 1) :
                (log[k] # "sleep") => log[k + 1] = "sleep"

\* C15: for a thin article the identifier is looked for in the url, then by
\* the publisher-ID lookup, then by the title search; a step is made only
\* when every step before it found nothing, so a url that holds a DOI causes
\* no request to the publisher API or to the title search; the identifier
\* the cascade works with is the one of the first step that found one.
Resolution == SelectSeq(log, LAMBDA c : c \in {"elsevier", "crossref"})
Requested(service) == \E k \in 1..Len(log) : log[k] = service

C15_ResolutionOrder ==
    ((InBody \/ Finished) /\ is_thin_excerpt(before.excerpt)) =>
        /\ IsPrefix(Resolution, log)
        /\ Resolution \in {<<>>, <<"elsevier">>, <<"crossref">>,
                           <<"elsevier", "crossref">>}
        /\ extract_doi(before.url) # NoDoi =>
                (Resolution = <<>> /\ doi = extract_doi(before.url))
        /\ (Requested("elsevier") /\ Result("elsevier") # NoDoi) =>
                (Resolution = <<"elsevier">> /\ doi = Result("elsevier"))
        /\ Requested("crossref") =>
                (extract_doi(before.url) = NoDoi /\ doi = Result("crossref"))
        /\ Cascade # <<>> =>
                (doi = NoDoi <=>
                    /\ extract_doi(before.url) = NoDoi
                    /\ Requested("elsevier") => Result("elsevier") = NoDoi
                    /\ Requested("crossref") => Result("crossref") = NoDoi)

C15_Witness ==
    /\ Finished
    /\ is_thin_excerpt(before.excerpt)
    /\ Resolution = <<"elsevier", "crossref">>
    /\ Result("elsevier") = NoDoi
    /\ doi = DCr
    /\ Cascade # <<>>

\* C16: with ELSEVIER_KEY unset no request is ever sent to the publisher
\* API; the publisher-ID step of an article finds no identifier and hands
\* over to the title search, which is the only resolution request made for
\* the article, and the loop goes on.
C16_MissingKeySoft ==
    ~env.ELSEVIER_KEY =>
        /\ ~Requested("elsevier")
        /\ \A u \in Urls : answers["elsevier"][u] = Unasked
        /\ pc # "elsevier" =>
            LET step == /\ InBody \/ Finished
                        /\ is_thin_excerpt(before.excerpt)
                        /\ extract_doi(before.url) = NoDoi
                        /\ is_sciencedirect(before.url)
                        /\ extract_pii(before.url) # ""
            IN  /\ (step /\ pc = "crossref") => (doi = NoDoi /\ log = <<>>)
                /\ (step /\ pc # "crossref") =>
                        IF before.title # <<>>
                        THEN Resolution = <<"crossref">>
                        ELSE Resolution = <<>> /\ doi = NoDoi

C16_Witness ==
    /\ ~env.ELSEVIER_KEY
    /\ Finished
    /\ before.url = UPii
    /\ is_thin_excerpt(before.excerpt)
    /\ Resolution = <<"crossref">>
    /\ i <= Len(articles)

\* C17: the title search returns the DOI of the top hit when the response is
\* a success with at least one hit, the title of the top hit passes the
\* title-similarity test against the article's title, and its DOI is
\* non-empty and does not end in .s and three digits; in every other case it
\* returns nothing.
C17_TitleSearchAccepts ==
    (ret.returned /\ call.fn = "resolve_title_to_doi") =>
        LET resp == call.resp
            top == resp.items[1]
            accepted == /\ resp.kind = "ok"
                        /\ resp.items # <<>>
                        /\ _titles_match(call.title, top.title)
                        /\ top.DOI # NoDoi
                        /\ ~(Len(top.DOI) >= 3 /\ top.DOI[Len(top.DOI)] \in SuppSuffixes)
        IN  ret.value = IF accepted THEN top.DOI ELSE NoDoi

C17_Witness ==
    /\ ret.returned
    /\ call.fn = "resolve_title_to_doi"
    /\ call.resp.kind = "ok"
    /\ call.resp.items # <<>>
    /\ _titles_match(call.title, call.resp.items[1].title)
    /\ call.resp.items[1].DOI = DCrSupp
    /\ ret.value = NoDoi

\* C18: two titles whose normalized forms are non-empty match if and only if
\* one normalized form is a substring of the other or the words common to
\* both, divided by the number of words of the title with fewer words, are
\* more than 0.75; a title whose normalized form is empty matches nothing.
C18_TitleSimilarity ==
    (ret.returned /\ call.fn = "_titles_match") =>
        LET na == norm(call.a)
            nb == norm(call.b)
            common == Cardinality(Words(na) \cap Words(nb))
            smaller == Min(Cardinality(Words(na)), Cardinality(Words(nb)))
        IN  IF na = <<>> \/ nb = <<>>
            THEN ret.value = FALSE
            ELSE ret.value <=>
                    \/ IsInfix(na, nb)
                    \/ IsInfix(nb, na)
                    \/ 4 * common > 3 * smaller

C18_Witness ==
    /\ ret.returned
    /\ call.fn = "_titles_match"
    /\ norm(call.a) # <<>>
    /\ norm(call.b) # <<>>
    /\ ~IsInfix(norm(call.a), norm(call.b))
    /\ ~IsInfix(norm(call.b), norm(call.a))
    /\ 4 * Cardinality(Words(norm(call.a)) \cap Words(norm(call.b)))
            = 3 * Min(Cardinality(Words(norm(call.a))), Cardinality(Words(norm(call.b))))
    /\ ret.value = FALSE

\* C19: the archive on disk is in pubDate descending order after every run:
\* the list the enrichment works on is in that order at every step of the
\* loop and every article keeps the pubDate the feed gave it.
C19_WrittenSorted ==
    /\ pc \notin {"idle", "done"} =>
            /\ IsSortedDesc(articles)
            /\ \A j \in 1..Len(articles) :
                    articles[j].pubDate = PubDateOf(articles[j].url)
    /\ file = "list" =>
            /\ IsSortedDesc(archive)
            /\ \A j \in 1..Len(archive) :
                    archive[j].pubDate = PubDateOf(archive[j].url)

C19_Witness ==
    /\ pc = "done"
    /\ Len(archive) = 2
    /\ archive[1].pubDate > archive[2].pubDate
    /\ archive[1].abstract_source # NoSource
    /\ archive[2].abstract_source # NoSource

\* C20: a run that finds mould_news.json missing or unparseable works on the
\* fresh batch alone: the merged list holds the urls of the batch and no
\* other, the run goes through the enrichment and the manifest export, and
\* it writes a parseable archive that holds exactly the urls of the batch.
C20_CorruptionNotFatal ==
    [][/\ (pc \in {"idle", "done"} /\ pc' = "loop" /\ file # "list") =>
            /\ loaded' = file
            /\ UniqueKeys(articles')
            /\ Keys(articles') = Keys(batch')
       /\ (pc' = "done" /\ loaded # "list") =>
            /\ file' = "list"
            /\ UniqueKeys(archive')
            /\ Keys(archive') = Keys(batch)
            /\ EntryUrls(manifest') = ThinUrls(archive')]_vars

C20_Witness ==
    /\ pc = "done"
    /\ loaded = "unparseable"
    /\ file = "list"
    /\ archive # <<>>
    /\ Keys(archive) # Keys(Garbage)
    /\ manifest.exists

\* C21: every helper returns nothing, and raises nothing, for an exception,
\* a status other than 200 and a success without the field it looks for;
\* the loop then asks the next source, so an article that is left thin and
\* without abstract_source was asked at every source of its path down to the
\* page scrape, and the loop went on to the articles after it.
HelpersSoft ==
    /\ \A r \in Failures :
            /\ resolve_pii_to_doi(r, TRUE) = NoDoi
            /\ \A u \in Urls : resolve_title_to_doi(TitleOf(u), r) = NoDoi
            /\ fetch_abstract_semantic_scholar(r) = Empty
            /\ fetch_abstract_openalex(r) = Empty
            /\ fetch_abstract_europepmc(r) = Empty
            /\ scrape_abstract_from_page(r) = Empty
    /\ resolve_pii_to_doi([kind |-> "ok", doi |-> NoDoi], TRUE) = NoDoi
    /\ \A u \in Urls :
            resolve_title_to_doi(TitleOf(u), [kind |-> "ok", items |-> <<>>]) = NoDoi
    /\ fetch_abstract_semantic_scholar([kind |-> "ok", abstract |-> Empty]) = Empty
    /\ fetch_abstract_openalex([kind |-> "ok", inverted |-> <<>>]) = Empty
    /\ fetch_abstract_europepmc([kind |-> "ok", results |-> <<>>]) = Empty
    /\ fetch_abstract_europepmc(
            [kind |-> "ok", results |-> <<[abstractText |-> Empty]>>]) = Empty
    /\ scrape_abstract_from_page(
            [kind |-> "ok", html |-> [meta |-> Empty, container |-> Empty]]) = Empty

AskedNothing(service, url) ==
    answers[service][url] = [kind |-> "asked", result |-> Empty]

\* the article went down its whole path and every source returned nothing
Exhausted(article) ==
    /\ AskedNothing("web_scrape", article.url)
    /\ (extract_doi(article.url) # NoDoi
            \/ answers["semantic_scholar"][article.url].kind = "asked")
        => \A s \in IdServices : AskedNothing(s, article.url)

LeftThin(article) ==
    is_thin_excerpt(article.excerpt) /\ article.abstract_source = NoSource

C21_SoftFailure ==
    /\ HelpersSoft
    /\ pc \notin {"idle", "done"} =>
            \A j \in 1..Len(articles) :
                (j < i /\ LeftThin(articles[j])) => Exhausted(articles[j])
    /\ pc = "done" =>
            \A j \in 1..Len(archive) :
                LeftThin(archive[j]) => Exhausted(archive[j])

C21_Witness ==
    /\ pc = "loop"
    /\ i = 3
    /\ LeftThin(articles[1])
    /\ extract_doi(articles[1].url) # NoDoi
    /\ Exhausted(articles[1])
    /\ before.url = articles[2].url
    /\ is_thin_excerpt(before.excerpt)
    /\ articles[2].abstract_source = "web_scrape"

\* C22: each classifier answers thin exactly for the empty excerpt, an
\* excerpt shorter than its minimum length and an excerpt that matches one of
\* its metadata patterns, where an excerpt that ends in an ellipsis and is
\* shorter than 150 characters is thin for both; the answer is the same
\* whatever the other fields of the article are.
Signature(c) ==
    \/ c.head.signature = "pattern"
    \/ c.head.signature = "whole" /\ c.len = Len(c.head.chars)

SummarizerSignature(c) == c.head.name \in {"pubdate", "pubdate_upper"}

C22_Classifier ==
    ret.returned =>
        /\ call.fn = "is_thin_excerpt" =>
                /\ ret.value = (\/ call.case.len = 0
                                \/ call.case.len < THIN_LEN
                                \/ Signature(call.case))
                /\ (call.case.tail.ellipsis /\ call.case.len < ELLIPSIS_LEN)
                        => ret.value
        /\ call.fn = "_is_thin" =>
                ret.value = (\/ call.case.len = 0
                             \/ call.case.len < ENHANCE_MIN_LEN
                             \/ SummarizerSignature(call.case)
                             \/ /\ call.case.tail.ellipsis
                                /\ call.case.len < ELLIPSIS_LEN)

C22_Witness ==
    /\ ret.returned
    /\ call.fn = "is_thin_excerpt"
    /\ call.case.len >= THIN_LEN
    /\ call.case.head.name = "volume_issue_page"
    /\ call.article.abstract_source = "openalex"
    /\ ret.value = TRUE

\* C30: an excerpt that _is_thin of the summarizer judges thin is judged thin
\* by is_thin_excerpt of the pipeline.
C30_SummarizerThinIsPipelineThin ==
    (ret.returned /\ call.fn = "_is_thin" /\ ret.value)
        => is_thin_excerpt(TextOf(call.excerpt, "feed"))

C30_Witness ==
    /\ ret.returned
    /\ call.fn = "_is_thin"
    /\ ret.value = TRUE
    /\ call.case.tail.ellipsis
    /\ call.case.head.name = "plain"
    /\ call.case.len = 149

\* C23: at the end of a run every article that carries an abstract_source is
\* classified non-thin and is not listed in the manifest.  (A thin article
\* loses its abstract_source when the loop takes it up, so a thin article
\* with one at the end of the run got it in this run.)
C23_EnrichedNotThin ==
    pc = "done" =>
        \A j \in 1..Len(archive) :
            archive[j].abstract_source # NoSource =>
                /\ ~is_thin_excerpt(archive[j].excerpt)
                /\ archive[j].url \notin EntryUrls(manifest)

\* C24: while enrich_abstracts runs, the list is the list it was given (the
\* merged and sorted list of the run) in length and order; every article
\* differs from the given one in its excerpt and abstract_source at most, and
\* an article that was given non-thin, or that the loop has not reached, is
\* unchanged.
C24_EnrichmentFrame ==
    pc \notin {"idle", "done"} =>
        LET given == Merge(existing_articles, batch)
        IN  /\ Len(articles) = Len(given)
            /\ \A j \in 1..Len(given) :
                    /\ articles[j] =
                            [given[j] EXCEPT
                                !.excerpt = articles[j].excerpt,
                                !.abstract_source = articles[j].abstract_source]
                    /\ ~is_thin_excerpt(given[j].excerpt) => articles[j] = given[j]
                    /\ j > i => articles[j] = given[j]

C24_Witness ==
    /\ pc = "loop"
    /\ i = 3
    /\ Len(articles) = 2
    /\ is_thin_excerpt(Merge(existing_articles, batch)[1].excerpt)
    /\ articles[1].excerpt # Merge(existing_articles, batch)[1].excerpt
    /\ articles[1].abstract_source = "openalex"
    /\ ~is_thin_excerpt(articles[2].excerpt)
    /\ articles[2] = Merge(existing_articles, batch)[2]

\* C25: a run of the log generator that finds enhance_articles.py as the run
\* before it found it appends no engine entry.
C25_NoRepeatedEngineEntry ==
    (previous.runs >= 2 /\ previous.same) => previous.added = 0

\* C26: a run of enhance_articles.main sends exactly the articles of
\* mould_news.json whose url is not in the enhanced archive, or whose stored
\* summary is a weak-signal message while their excerpt is not thin; every
\* other entry of the archive is left as it is, so a summary that is not a
\* weak-signal message (the fallback included) stays, and no url leaves the
\* archive.
StoredUrls(file_) == {file_.list[k].url : k \in 1..Len(file_.list)}

StoredEntry(file_, url) == file_.list[IndexOf(file_.list, url)]

Gate(article) ==
    \/ article.url \notin StoredUrls(enhanced)
    \/ /\ StoredEntry(enhanced, article.url).summary.kind = "weak"
       /\ ~(\/ Len(article.excerpt) < ENHANCE_MIN_LEN
            \/ /\ Len(article.excerpt) < ELLIPSIS_LEN
               /\ SubSeq(article.excerpt, Len(article.excerpt) - 2,
                         Len(article.excerpt)) = <<".", ".", ".">>)

C26_Step ==
    /\ sent'.run # sent.run =>
            /\ sent'.urls = {archive[k].url :
                                k \in {l \in 1..Len(archive) : Gate(archive[l])}}
            /\ \A u \in sent'.urls :
                    /\ u \in StoredUrls(enhanced')
                    /\ StoredEntry(enhanced', u).enhanced_at = sent'.run
    /\ \A u \in StoredUrls(enhanced) :
            /\ u \in StoredUrls(enhanced')
            /\ StoredEntry(enhanced, u).summary.kind # "weak"
                    => StoredEntry(enhanced', u) = StoredEntry(enhanced, u)
            /\ u \notin sent'.urls
                    => StoredEntry(enhanced', u) = StoredEntry(enhanced, u)

C26_Resummarization == [][C26_Step]_vars

C26_Witness ==
    /\ sent.run = 2
    /\ sent.urls = {UPii}
    /\ StoredUrls(enhanced) = {UDoi, UPii}
    /\ StoredEntry(enhanced, UDoi).summary.kind = "fallback"
    /\ StoredEntry(enhanced, UDoi).enhanced_at = 1
    /\ StoredEntry(enhanced, UPii).summary.kind = "full"
    /\ StoredEntry(enhanced, UPii).enhanced_at = 2
    /\ StoredEntry(enhanced, UPii).excerpt = [k \in 1..150 |-> "x"]
    /\ Len(StoredEntry(enhanced, UDoi).excerpt) = 60
    /\ archive[1].excerpt # StoredEntry(enhanced, UDoi).excerpt

\* C29: with overlap smaller than max_words, chunk_text returns; every chunk
\* it returns has at most max_words words; the chunks are the runs of max_words
\* words that start every max_words - overlap words, so every word of the text
\* lies in one of them; a text of at most max_words words comes back as one
\* chunk equal to the text.
ChunkPost ==
    LET words == split(call.text)
        n == Len(words)
        m == call.max_words
        step == call.max_words - call.overlap
        chunks == ret.value
        lo(j) == (j - 1) * step + 1
        hi(j) == Min(lo(j) + m - 1, n)
    IN  /\ \A j \in 1..Len(chunks) : Len(split(chunks[j])) <= m
        /\ n <= m => chunks = <<call.text>>
        /\ n > m =>
            /\ \A j \in 1..Len(chunks) :
                    chunks[j] = join(SubSeq(words, lo(j), hi(j)))
            /\ \A k \in 1..n : \E j \in 1..Len(chunks) : lo(j) <= k /\ k <= hi(j)

C28_ContextWithinLimit ==
    (ret.returned /\ call.fn = "format_context_for_prompt")
        => ret.value <= call.max_chars

\* C27: an incremental run upserts no document, in either collection, of an
\* article that had a document (the whole article or a chunk of it) in the
\* articles collection before the run.
C27_IncrementalSkips ==
    (upserted.run >= 1 /\ upserted.incremental) =>
        \A id \in upserted.articles \cup upserted.abstracts :
            id.doc \notin {d.id.doc : d \in upserted.before}
====
